---------------------------- MODULE Spec2Model ----------------------------
(***************************************************************************)
(* Verification model of SmartCollage's layout engine and render pipeline  *)
(* (src/src/lib/collage.ts, first revision, lines 1-456).                  *)
(*                                                                         *)
(* Numbers.  Every quantity the layout engine handles is an integer once   *)
(* the code has floored/rounded it, except                                 *)
(*   - mainRatio, a real: modelled as an integer number of hundredths      *)
(*     (RatioPct = 100 * mainRatio);                                       *)
(*   - the shares of allocateCounts, IEEE-754 doubles: computed bit for   *)
(*     bit (53-bit significand, round to nearest even) on numbers kept as  *)
(*     sequences of 13-bit limbs;                                          *)
(*   - the squareness score of computeBestRowsNoWaste, a sum of            *)
(*     |log(aspect)| terms: the argmin over the scored row counts is       *)
(*     modelled as a nondeterministic choice among the row counts the loop *)
(*     scores, so a function whose result depends on it is modelled as the *)
(*     SET of results the choice allows.                                   *)
(***************************************************************************)
EXTENDS Integers, Sequences, FiniteSets, TLC

(***************************************************************************)
(* Program constants                                                       *)
(***************************************************************************)
MinSize == 64
GapDivisor == 8
MinRatioPct == 5
MaxRatioPct == 95
GapAttempts == 4
FrameEvery == 4

(***************************************************************************)
(* Bounds of the model                                                     *)
(***************************************************************************)
MaxOthers == 8
MaxArea == 3
MaxTotal == 5
MaxSide == 3
MaxCount == 5
MaxGap == 2
MaxImages == 4
MaxRepeat == 2
MaxIds == 2

(***************************************************************************)
(* Small helpers                                                           *)
(***************************************************************************)
Max(a, b) == IF a >= b THEN a ELSE b
Min(a, b) == IF a <= b THEN a ELSE b

clamp(value, min, max) == Min(max, Max(min, value))

RECURSIVE SumSeq(_)
SumSeq(s) == IF s = <<>> THEN 0 ELSE s[1] + SumSeq(Tail(s))

RECURSIVE Flatten(_)
Flatten(ss) == IF ss = <<>> THEN <<>> ELSE ss[1] \o Flatten(Tail(ss))

Prefix(s, k) == SubSeq(s, 1, k)

(***************************************************************************)
(* distribute(total, parts): parts integers, the first rem one larger.     *)
(***************************************************************************)
\* faulty variant: one part too many receives the extra pixel
distribute_OffByOne(total, parts) ==
  LET safeParts == Max(1, parts)
      safeTotal == Max(0, total)
      base == safeTotal \div safeParts
      rem == safeTotal - base * safeParts
  IN  [i \in 1..safeParts |-> base + (IF i - 1 <= rem THEN 1 ELSE 0)]

distribute(total, parts) ==
  LET safeParts == Max(1, parts)
      safeTotal == Max(0, total)
      base == safeTotal \div safeParts
      rem == safeTotal - base * safeParts
  IN  [i \in 1..safeParts |-> base + (IF i - 1 < rem THEN 1 ELSE 0)]

(***************************************************************************)
(* computeRegions(size, mainRatio), mainRatio = ratioPct / 100.            *)
(* Math.round(size * safeRatio) rounds halves up.                          *)
(***************************************************************************)
Rect(x, y, w, h) == [x |-> x, y |-> y, width |-> w, height |-> h]

\* faulty variant: mainRatio is used without the clamp to [0.05, 0.95]
roundedMainSize_Unclamped(size, ratioPct) ==
  (2 * size * ratioPct + 100) \div 200

roundedMainSize(size, ratioPct) ==
  LET safeRatio == clamp(ratioPct, MinRatioPct, MaxRatioPct)
  IN  (2 * size * safeRatio + 100) \div 200

\* faulty variant: the parity test is inverted, an even difference is nudged
nudgedMainSize_WrongParity(size, mainSize0) ==
  IF (size - mainSize0) % 2 = 0
  THEN LET down == mainSize0 - 1
           up == mainSize0 + 1
       IN  IF down >= 1 THEN down
           ELSE IF up <= size THEN up
           ELSE mainSize0
  ELSE mainSize0

nudgedMainSize(size, mainSize0) ==
  IF (size - mainSize0) % 2 # 0
  THEN LET down == mainSize0 - 1
           up == mainSize0 + 1
       IN  IF down >= 1 /\ (size - down) % 2 = 0 THEN down
           ELSE IF up <= size /\ (size - up) % 2 = 0 THEN up
           ELSE mainSize0
  ELSE mainSize0

\* faulty variant: the bottom strip starts right below the top strip
computeRegions_BottomAtRingT(size, ratioPct) ==
  LET mainSize == nudgedMainSize(size, clamp(roundedMainSize(size, ratioPct), 1, size))
      ringT == Max(0, (size - mainSize) \div 2)
      top == Rect(0, 0, size, ringT)
      bottom == Rect(0, ringT, size, ringT)
      left == Rect(0, ringT, ringT, mainSize)
      right == Rect(ringT + mainSize, ringT, ringT, mainSize)
      region(nm, r) == [name |-> nm, rect |-> r, area |-> r.width * r.height]
  IN  [mainRect |-> Rect(ringT, ringT, mainSize, mainSize),
       regions |-> << region("top", top), region("right", right),
                      region("bottom", bottom), region("left", left) >>]

\* faulty variant: left and right span the full canvas height (corners counted twice)
computeRegions_FullHeightSides(size, ratioPct) ==
  LET mainSize == nudgedMainSize(size, clamp(roundedMainSize(size, ratioPct), 1, size))
      ringT == Max(0, (size - mainSize) \div 2)
      top == Rect(0, 0, size, ringT)
      bottom == Rect(0, ringT + mainSize, size, ringT)
      left == Rect(0, 0, ringT, size)
      right == Rect(ringT + mainSize, 0, ringT, size)
      region(nm, r) == [name |-> nm, rect |-> r, area |-> r.width * r.height]
  IN  [mainRect |-> Rect(ringT, ringT, mainSize, mainSize),
       regions |-> << region("top", top), region("right", right),
                      region("bottom", bottom), region("left", left) >>]

computeRegions(size, ratioPct) ==
  LET mainSize == nudgedMainSize(size, clamp(roundedMainSize(size, ratioPct), 1, size))
      \* (size - mainSize) is even after the nudge, so the division is exact
      ringT == Max(0, (size - mainSize) \div 2)
      top == Rect(0, 0, size, ringT)
      bottom == Rect(0, ringT + mainSize, size, ringT)
      left == Rect(0, ringT, ringT, mainSize)
      right == Rect(ringT + mainSize, ringT, ringT, mainSize)
      region(nm, r) == [name |-> nm, rect |-> r, area |-> r.width * r.height]
  IN  [mainRect |-> Rect(ringT, ringT, mainSize, mainSize),
       regions |-> << region("top", top), region("right", right),
                      region("bottom", bottom), region("left", left) >>]

(***************************************************************************)
(* Double arithmetic of allocateCounts.  A natural number is a sequence of *)
(* LimbCount limbs of LimbBits bits, least significant first.  The         *)
(* significand of a double has 53 = 1 + 4 * LimbBits bits.  The operators  *)
(* are exact for 0 <= area <= ringArea < 2^16 and safeTotal < 2^12.        *)
(***************************************************************************)
SignificandBits == 53
LimbBits == (SignificandBits - 1) \div 4
LimbBase == 2 ^ LimbBits
LimbCount == (SignificandBits - 1) \div LimbBits + 3

\* the limbs of the number whose (possibly too large) digits are ds
RECURSIVE limbsFrom(_, _, _)
limbsFrom(ds, i, carry) ==
  IF i > LimbCount THEN <<>>
  ELSE <<(ds[i] + carry) % LimbBase>>
         \o limbsFrom(ds, i + 1, (ds[i] + carry) \div LimbBase)

normLimbs(ds) == limbsFrom(ds, 1, 0)

mulSmall(x, c) == normLimbs([i \in 1..LimbCount |-> x[i] * c])

addSmall(x, c) == normLimbs([x EXCEPT ![1] = @ + c])

limbsGreater(x, y) ==
  \E i \in 1..LimbCount : x[i] > y[i] /\ \A j \in (i + 1)..LimbCount : x[j] = y[j]

\* the number of bits of n >= 1
bitLength(n) == CHOOSE b \in 1..30 : 2 ^ (b - 1) <= n /\ n < 2 ^ b

\* the exponent of area / ringArea: area * 2^k / ringArea lies in [1, 2)
scaleOf(a, ring) == CHOOSE e \in 0..30 : a * 2 ^ e >= ring /\ a * 2 ^ e < 2 * ring

\* long division of r / ring, r < ring: n digits of LimbBits bits, the most
\* significant first, followed by the remainder
RECURSIVE longDivision(_, _, _)
longDivision(r, ring, n) ==
  IF n = 0 THEN <<r>>
  ELSE <<(r * LimbBase) \div ring>> \o longDivision((r * LimbBase) % ring, ring, n - 1)

\* the significand 1.d1 d2 d3 d4 rounded to nearest, ties to even, dv being
\* <<d1, d2, d3, d4, remainder>>
roundQuot(k, dv, ring) ==
  [k |-> k,
   m |-> addSmall(<<dv[4], dv[3], dv[2], dv[1], 1, 0, 0>>,
                  IF 2 * dv[5] > ring \/ (2 * dv[5] = ring /\ dv[4] % 2 = 1)
                  THEN 1 ELSE 0)]

floatQuotAt(a, ring, k) ==
  roundQuot(k, longDivision(a * 2 ^ k - ring, ring, (SignificandBits - 1) \div LimbBits),
            ring)

\* area / ringArea as a double: m * 2^(-52 - k), m the 53-bit significand
floatQuot(a, ring) == floatQuotAt(a, ring, scaleOf(a, ring))

\* the bits of a product above the four low limbs
topOf(x) == x[5] + LimbBase * x[6] + LimbBase * LimbBase * x[7]

\* whether dropping the lowest 'extra' bits of low rounds up (nearest, ties to even)
roundsUp(low, extra) ==
  /\ extra > 0
  /\ \/ 2 * (low % (2 ^ extra)) > 2 ^ extra
     \/ 2 * (low % (2 ^ extra)) = 2 ^ extra /\ (low \div (2 ^ extra)) % 2 = 1

\* the product rounded to 53 significant bits, 'extra' bits being too many
roundLimbs(prod, extra) ==
  addSmall([prod EXCEPT ![1] = @ - (@ % (2 ^ extra))],
           IF roundsUp(prod[1], extra) THEN 2 ^ extra ELSE 0)

\* base = Math.floor(exact) and frac = exact - base, the number
\* frac (as limbs) * 2^(-52 - k)
splitShare(k, rounded) ==
  [k |-> k,
   base |-> topOf(rounded) \div (2 ^ k),
   frac |-> <<rounded[1], rounded[2], rounded[3], rounded[4],
              topOf(rounded) % (2 ^ k), 0, 0>>]

productShare(k, prod) == splitShare(k, roundLimbs(prod, bitLength(topOf(prod)) - 1))

quotShare(q, t) == productShare(q.k, mulSmall(q.m, t))

\* exact = (area / ringArea) * safeTotal as a double, split as the code splits it
floatShare(a, ring, t) ==
  IF a = 0 \/ t = 0
  THEN [k |-> 0, base |-> 0, frac |-> [i \in 1..LimbCount |-> 0]]
  ELSE quotShare(floatQuot(a, ring), t)

\* the fracs of the shares on the common scale 2^(-52 - K), K the largest k
fracKeys(shares) ==
  LET K == CHOOSE m \in {shares[i].k : i \in DOMAIN shares} :
             \A i \in DOMAIN shares : shares[i].k <= m
  IN  [i \in DOMAIN shares |-> mulSmall(shares[i].frac, 2 ^ (K - shares[i].k))] \o <<>>

(***************************************************************************)
(* sortedPos(keys, i) is the 0-based position of input region i after      *)
(* raw.sort((a, b) => b.frac - a.frac), a stable sort by descending frac.  *)
(***************************************************************************)
sortedPos(keys, i) ==
  Cardinality({j \in DOMAIN keys :
                 limbsGreater(keys[j], keys[i]) \/ (keys[j] = keys[i] /\ j < i)})

\* faulty variant: the floors only, the remainder is never distributed
allocateCounts_FloorOnly(total, regions) ==
  LET safeTotal == Max(0, total)
      ringArea == SumSeq([i \in DOMAIN regions |-> regions[i].area])
  IN  [nm \in {"top", "right", "bottom", "left"} |->
         IF safeTotal = 0 \/ ringArea <= 0 THEN 0
         ELSE IF \E i \in DOMAIN regions : regions[i].name = nm
         THEN (regions[CHOOSE i \in DOMAIN regions : regions[i].name = nm].area * safeTotal)
                \div ringArea
         ELSE 0]

allocateCounts(total, regions) ==
  LET safeTotal == Max(0, total)
      ringArea == SumSeq([i \in DOMAIN regions |-> regions[i].area])
      zero == [nm \in {"top", "right", "bottom", "left"} |-> 0]
  IN  IF safeTotal = 0 \/ ringArea <= 0 THEN zero
      ELSE
        LET \* (the concatenation makes the array a value computed once)
            raw == [i \in DOMAIN regions |->
                      floatShare(regions[i].area, ringArea, safeTotal)] \o <<>>
            base == [i \in DOMAIN regions |-> raw[i].base]
            keys == fracKeys(raw)
            remaining == safeTotal - SumSeq(base)
            extraOf(i) == Cardinality({k \in 0..(remaining - 1) :
                                         k % Len(regions) = sortedPos(keys, i)})
            final == [i \in DOMAIN regions |-> base[i] + extraOf(i)]
            out == [nm \in {"top", "right", "bottom", "left"} |->
                      IF \E i \in DOMAIN regions : regions[i].name = nm
                      THEN final[CHOOSE i \in DOMAIN regions : regions[i].name = nm]
                      ELSE 0]
            used == out["top"] + out["right"] + out["bottom"] + out["left"]
        IN  IF used # safeTotal
            THEN [out EXCEPT !["top"] = out["top"] + (safeTotal - used)]
            ELSE out

(***************************************************************************)
(* computeBestRowsNoWaste.  ScoredRows is the set of row counts the loop   *)
(* reaches (no earlier 'break') and scores (no 'continue'); every scored   *)
(* row count has a finite score, so bestRows is null exactly when the set  *)
(* is empty.  The result is a set of possible outcomes (see the header).   *)
(***************************************************************************)
rowCountOf(n, rows, r) ==
  LET base == n \div rows
      extra == n - base * rows
  IN  base + (IF r < extra THEN 1 ELSE 0)

\* faulty variant: the row search ends ('break') as soon as the rows would be
\* exactly one pixel high
loopReaches_BreakAtUnitRows(n, height, gap, rows) ==
  \A q \in 1..rows : (height - gap * (q - 1) > q) /\ (n \div q > 0)

loopReaches(n, height, gap, rows) ==
  \A q \in 1..rows : (height - gap * (q - 1) >= q) /\ (n \div q > 0)

rowsOk(n, width, gap, rows) ==
  \A r \in 0..(rows - 1) :
     width - gap * (rowCountOf(n, rows, r) - 1) >= rowCountOf(n, rows, r)

\* faulty variant: a row count whose rows are too narrow ends the search ('break'
\* instead of 'continue')
ScoredRows_BreakOnWidth(n, width, height, gap) ==
  {rows \in 1..Min(n, height) :
     /\ loopReaches(n, height, gap, rows)
     /\ \A q \in 1..rows : rowsOk(n, width, gap, q)}

ScoredRows(n, width, height, gap) ==
  {rows \in 1..Min(n, height) :
     loopReaches(n, height, gap, rows) /\ rowsOk(n, width, gap, rows)}

computeBestRowsNoWaste(count, width0, height0, gap0) ==
  LET n == Max(0, count)
      width == Max(0, width0)
      height == Max(0, height0)
      gap == Max(0, gap0)
  IN  IF n = 0 \/ width = 0 \/ height = 0 THEN {[null |-> FALSE, rows |-> 0]}
      ELSE IF ScoredRows(n, width, height, gap) = {} THEN {[null |-> TRUE, rows |-> 0]}
      ELSE {[null |-> FALSE, rows |-> r] : r \in ScoredRows(n, width, height, gap)}

(***************************************************************************)
(* tryBuildCellsFilled: the cells of the grid with the chosen row count,   *)
(* row-major; null when the grid is infeasible.                            *)
(***************************************************************************)
NullCells == [null |-> TRUE, cells |-> <<>>]
SomeCells(cs) == [null |-> FALSE, cells |-> cs]

\* faulty variant: the gaps are not subtracted from the width shared out
gridCells_GapsNotSubtracted(x0, y0, width, height, n, gap, rows) ==
  LET rowHeights == distribute(height - gap * (rows - 1), rows)
      yOf(r) == y0 + SumSeq(Prefix(rowHeights, r - 1)) + gap * (r - 1)
      rowCells(r) ==
        LET rowCount == rowCountOf(n, rows, r - 1)
            colWidths == distribute(width, rowCount)
        IN  [c \in 1..rowCount |->
               Rect(x0 + SumSeq(Prefix(colWidths, c - 1)) + gap * (c - 1),
                    yOf(r), colWidths[c], rowHeights[r])]
  IN  Flatten([r \in 1..rows |-> rowCells(r)])

gridCells(x0, y0, width, height, n, gap, rows) ==
  LET rowHeights == distribute(height - gap * (rows - 1), rows)
      yOf(r) == y0 + SumSeq(Prefix(rowHeights, r - 1)) + gap * (r - 1)
      rowCells(r) ==
        LET rowCount == rowCountOf(n, rows, r - 1)
            colWidths == distribute(width - gap * (rowCount - 1), rowCount)
        IN  [c \in 1..rowCount |->
               Rect(x0 + SumSeq(Prefix(colWidths, c - 1)) + gap * (c - 1),
                    yOf(r), colWidths[c], rowHeights[r])]
  IN  Flatten([r \in 1..rows |-> rowCells(r)])

tryBuildWithRows(rect, n, gap, best) ==
  IF best.null \/ best.rows <= 0 THEN NullCells
  ELSE LET rows == best.rows
           base == n \div rows
       IN  IF base <= 0 THEN NullCells
           ELSE IF rect.height - gap * (rows - 1) < rows THEN NullCells
           ELSE IF ~rowsOk(n, rect.width, gap, rows) THEN NullCells
           ELSE LET cells == gridCells(rect.x, rect.y, rect.width, rect.height, n, gap, rows)
                IN  IF Len(cells) = n THEN SomeCells(cells) ELSE NullCells

tryBuildCellsFilled(rect, count, gap0) ==
  LET n == Max(0, count)
      gap == Max(0, gap0)
  IN  IF n = 0 THEN {SomeCells(<<>>)}
      ELSE IF rect.width <= 0 \/ rect.height <= 0 THEN {NullCells}
      ELSE {tryBuildWithRows(rect, n, gap, best) :
              best \in computeBestRowsNoWaste(n, rect.width, rect.height, gap)}

(***************************************************************************)
(* buildCellsFilled: the requested gap, then three halvings, then gap 0.   *)
(***************************************************************************)
\* faulty variant: the gap is halved until it reaches 0, however many times
RECURSIVE buildAttempts_KeepHalving(_, _, _, _)
buildAttempts_KeepHalving(rect, n, g, attempt) ==
  IF g > 0
  THEN LET outs == tryBuildCellsFilled(rect, n, g)
       IN  {o.cells : o \in {q \in outs : ~q.null}}
           \cup (IF \E o \in outs : o.null
                 THEN buildAttempts_KeepHalving(rect, n, g \div 2, attempt + 1)
                 ELSE {})
  ELSE {IF o.null THEN <<>> ELSE o.cells : o \in tryBuildCellsFilled(rect, n, 0)}

RECURSIVE buildAttempts(_, _, _, _)
buildAttempts(rect, n, g, attempt) ==
  IF attempt < GapAttempts
  THEN LET outs == tryBuildCellsFilled(rect, n, g)
       IN  {o.cells : o \in {q \in outs : ~q.null}}
           \cup (IF \E o \in outs : o.null
                 THEN buildAttempts(rect, n, g \div 2, attempt + 1)
                 ELSE {})
  ELSE {IF o.null THEN <<>> ELSE o.cells : o \in tryBuildCellsFilled(rect, n, 0)}

\* faulty variant: no fallback to a smaller gap
buildCellsFilled_NoFallback(rect, count, gap) ==
  LET n == Max(0, count)
  IN  IF n = 0 THEN {<<>>}
      ELSE {IF o.null THEN <<>> ELSE o.cells :
              o \in tryBuildCellsFilled(rect, n, Max(0, gap))}

buildCellsFilled(rect, count, gap) ==
  LET n == Max(0, count)
  IN  IF n = 0 THEN {<<>>} ELSE buildAttempts(rect, n, Max(0, gap), 0)

(***************************************************************************)
(* computeCollageLayout: the set of layouts the row choices allow.         *)
(***************************************************************************)
\* faulty variant: the regions' cells concatenated in the order top, bottom, left, right
computeCollageLayout_RowsFirst(options) ==
  LET size == Max(MinSize, options.size)
      gap == clamp(options.gap, 0, size \div GapDivisor)
      othersCount == Max(0, options.othersCount)
      cr == computeRegions(size, options.mainRatio)
      counts == allocateCounts(othersCount, cr.regions)
      cellsOf(i) == buildCellsFilled(cr.regions[i].rect, counts[cr.regions[i].name], gap)
  IN  {[size |-> size, gap |-> gap, mainRect |-> cr.mainRect,
        ringCells |-> t \o b \o l \o r] :
         t \in cellsOf(1), r \in cellsOf(2), b \in cellsOf(3), l \in cellsOf(4)}

computeCollageLayout(options) ==
  LET size == Max(MinSize, options.size)
      gap == clamp(options.gap, 0, size \div GapDivisor)
      othersCount == Max(0, options.othersCount)
      cr == computeRegions(size, options.mainRatio)
      counts == allocateCounts(othersCount, cr.regions)
      cellsOf(i) == buildCellsFilled(cr.regions[i].rect, counts[cr.regions[i].name], gap)
  IN  {[size |-> size, gap |-> gap, mainRect |-> cr.mainRect,
        ringCells |-> t \o r \o b \o l] :
         t \in cellsOf(1), r \in cellsOf(2), b \in cellsOf(3), l \in cellsOf(4)}

(***************************************************************************)
(* State of a call of one of the layout functions: its name, its           *)
(* arguments, whether it has returned and the value it returned.           *)
(***************************************************************************)
VARIABLES fn, fnArgs, fnDone, fnOut

layoutVars == <<fn, fnArgs, fnDone, fnOut>>

(***************************************************************************)
(* State of one renderCollageToCanvas call.                                *)
(*   rArgs      the arguments: images (the ids; the file of the k-th image *)
(*              is k), mainId, the options, and whether                    *)
(*              canvas.getContext returns a context (ctxOk)                *)
(*   pc         where the call is: "init" before it starts, at one of its  *)
(*              awaits, between a decode and its draw, or "done"           *)
(*   aborted    signal.aborted                                             *)
(*   ordered, mainItem, cells, mainRect, idx, drawn, total                 *)
(*              the locals ordered/othersOrdered, main, cells or           *)
(*              layout.ringCells, layout.mainRect, idx, drawn, totalToDraw *)
(*   events     the progress events passed to onProgress, in order         *)
(*   decodeLog  the items whose decode was started, in order               *)
(*   drawLog    the drawImageCover calls (item, dest), in order            *)
(*   filled     the background fillRect was done                           *)
(*   held       decoded images obtained and not yet released               *)
(*   result     "none" while running, "ok", or the failure raised          *)
(*   abortAt    the position of the call when the signal became set        *)
(*   released   the items whose decoded image was released (the finally    *)
(*              block ran, close was invoked when present), in order       *)
(*   failedDecode  the item whose decodeImage rejected, NoItem if none     *)
(***************************************************************************)
VARIABLES rArgs, pc, aborted, ordered, mainItem, cells, mainRect, idx, drawn,
          total, events, decodeLog, drawLog, filled, held, result, abortAt,
          released, failedDecode

renderVars == <<rArgs, pc, aborted, ordered, mainItem, cells, mainRect, idx, drawn,
                total, events, decodeLog, drawLog, filled, held, result, abortAt,
                released, failedDecode>>

(***************************************************************************)
(* State of the page component Home, which calls the pipeline.             *)
(*   busy      the state set by setBusy                                    *)
(*   images    the number of images in the state set by setImages          *)
(*   error     whether the state set by setError holds a message           *)
(*   shown     the values of busy and images in the last committed render: *)
(*             they decide which buttons are enabled and which handler a   *)
(*             button invokes.  React commits the updates made by an event *)
(*             handler before it dispatches the next event; the updates    *)
(*             made after an await are committed by a later render.        *)
(*   abortRef  abortRef.current: NoController for null, else the number of *)
(*             the controller                                              *)
(*   ops       the operations started, in order; the k-th one created the  *)
(*             controller k.  handler is the handler that started it, at   *)
(*             is the await it is suspended at ("done" after its finally   *)
(*             block), canvas the canvas given to renderCollageToCanvas    *)
(*             and aborted its controller's signal.aborted                 *)
(***************************************************************************)
VARIABLES busy, images, error, shown, abortRef, ops

pageVars == <<busy, images, error, shown, abortRef, ops>>

vars == <<fn, fnArgs, fnDone, fnOut, rArgs, pc, aborted, ordered, mainItem, cells,
          mainRect, idx, drawn, total, events, decodeLog, drawLog, filled, held,
          result, abortAt, released, failedDecode, busy, images, error, shown,
          abortRef, ops>>

NoController == 0

pageIdle ==
  /\ busy = FALSE
  /\ images = 0
  /\ error = FALSE
  /\ shown = [busy |-> FALSE, images |-> 0]
  /\ abortRef = NoController
  /\ ops = <<>>

NoRect == Rect(0, 0, 0, 0)
NoItem == [id |-> 0, file |-> 0]
NoAbort == [pc |-> "never", idx |-> 0, decodes |-> 0, draws |-> 0]

renderIdle ==
  /\ rArgs = <<>>
  /\ pc = "unused"
  /\ aborted = FALSE
  /\ ordered = <<>>
  /\ mainItem = NoItem
  /\ cells = <<>>
  /\ mainRect = NoRect
  /\ idx = 0
  /\ drawn = 0
  /\ total = 0
  /\ events = <<>>
  /\ decodeLog = <<>>
  /\ drawLog = <<>>
  /\ filled = FALSE
  /\ held = 0
  /\ result = "none"
  /\ abortAt = NoAbort
  /\ released = <<>>
  /\ failedDecode = NoItem

(***************************************************************************)
(* Inputs of the layout functions                                          *)
(***************************************************************************)
ringAreaOf(size, ratioPct) ==
  LET cr == computeRegions(Max(MinSize, size), ratioPct)
  IN  SumSeq([i \in 1..4 |-> cr.regions[i].area])

SizeInputs == {MinSize - 1, MinSize, MinSize + 1, 100}
RatioInputs == {0, 48, 50, 100}
GapInputs == {0 - 1, 0, 3, GapDivisor + 1}

SmallOptions ==
  [size : SizeInputs, mainRatio : RatioInputs, gap : GapInputs,
   othersCount : (0 - 1)..MaxOthers]

\* the thinnest ring (size 64, ratio clamped to 0.95) filled to and past its
\* pixel area
CrowdedOptions ==
  [size : {MinSize}, mainRatio : {MaxRatioPct}, gap : {0, GapDivisor + 1},
   othersCount : {ringAreaOf(MinSize, MaxRatioPct), ringAreaOf(MinSize, MaxRatioPct) + 1}]

\* scenario A of the specification
ScenarioA == [size |-> 100, mainRatio |-> 50, gap |-> 0, othersCount |-> 12]

LayoutOptions == SmallOptions \cup CrowdedOptions \cup {ScenarioA}

RectInputs ==
  {Rect(x, y, w, h) : x \in {0, 2}, y \in {0}, w \in 0..MaxSide, h \in 0..MaxSide}

\* a rectangle wide enough for gaps of 2 and 4 between two cells
WideRect == Rect(0, 0, 2 * MaxSide, MaxSide + 1)

PackerRects == RectInputs \cup {WideRect}

\* gaps up to MaxGap, a negative gap, and gaps that need one and two
\* halvings more than the loop makes before they reach 1
PackerGaps == (0 - 1)..MaxGap \cup {GapDivisor, 2 * GapDivisor}

\* canvas sizes from the smallest on, even and odd, and scenario A's
RegionSizes == MinSize..(MinSize + MaxSide) \cup {100}

\* mainRatio in percent, below, across and above the clamped range
RegionRatios == (0 - MaxRatioPct)..(2 * MaxRatioPct)

areaRegions(a) ==
  [i \in 1..4 |->
     [name |-> <<"top", "right", "bottom", "left">>[i],
      rect |-> Rect(0, 0, a[i], 1), area |-> a[i]]]

RegionInputs ==
  {areaRegions(a) : a \in [1..4 -> 1..MaxArea]}
    \cup {computeRegions(Max(MinSize, s), p).regions : s \in SizeInputs, p \in RatioInputs}

\* the call computeCollageLayout makes for size 65, mainRatio 0.41 and 92 ring
\* images: the regions' areas are 1235, 513, 1235, 513 and the four shares
\* are 32.5, 13.5, 32.5, 13.5
HalfShares == [total |-> 92, regions |-> computeRegions(MinSize + 1, 41).regions]

(***************************************************************************)
(* Calls of the layout functions: Init draws the call and its arguments,   *)
(* the action applies the function.                                        *)
(***************************************************************************)
InitLayout ==
  /\ \/ fn = "computeCollageLayout" /\ fnArgs \in LayoutOptions
     \/ fn = "buildCellsFilled"
          /\ fnArgs \in [rect : PackerRects, count : 0..MaxCount, gap : PackerGaps]
     \/ fn = "allocateCounts"
          /\ fnArgs \in [total : 0..MaxTotal, regions : RegionInputs] \cup {HalfShares}
     \/ fn = "tryBuildCellsFilled"
          /\ fnArgs \in [rect : PackerRects, count : 0..MaxCount, gap : PackerGaps]
     \/ fn = "computeRegions"
          /\ fnArgs \in [size : RegionSizes, mainRatio : RegionRatios]
  /\ fnDone = FALSE
  /\ fnOut = <<>>
  /\ renderIdle
  /\ pageIdle

CallComputeCollageLayout ==
  /\ fn = "computeCollageLayout" /\ ~fnDone
  /\ fnOut' \in computeCollageLayout(fnArgs)
  /\ fnDone' = TRUE
  /\ UNCHANGED <<fn, fnArgs>>
  /\ UNCHANGED <<renderVars, pageVars>>

CallBuildCellsFilled ==
  /\ fn = "buildCellsFilled" /\ ~fnDone
  /\ fnOut' \in buildCellsFilled(fnArgs.rect, fnArgs.count, fnArgs.gap)
  /\ fnDone' = TRUE
  /\ UNCHANGED <<fn, fnArgs>>
  /\ UNCHANGED <<renderVars, pageVars>>

CallAllocateCounts ==
  /\ fn = "allocateCounts" /\ ~fnDone
  /\ fnOut' = allocateCounts(fnArgs.total, fnArgs.regions)
  /\ fnDone' = TRUE
  /\ UNCHANGED <<fn, fnArgs>>
  /\ UNCHANGED <<renderVars, pageVars>>

CallTryBuildCellsFilled ==
  /\ fn = "tryBuildCellsFilled" /\ ~fnDone
  /\ fnOut' \in tryBuildCellsFilled(fnArgs.rect, fnArgs.count, fnArgs.gap)
  /\ fnDone' = TRUE
  /\ UNCHANGED <<fn, fnArgs>>
  /\ UNCHANGED <<renderVars, pageVars>>

CallComputeRegions ==
  /\ fn = "computeRegions" /\ ~fnDone
  /\ fnOut' = computeRegions(fnArgs.size, fnArgs.mainRatio)
  /\ fnDone' = TRUE
  /\ UNCHANGED <<fn, fnArgs>>
  /\ UNCHANGED <<renderVars, pageVars>>

NextLayout ==
  \/ CallComputeCollageLayout
  \/ CallBuildCellsFilled
  \/ CallAllocateCounts
  \/ CallTryBuildCellsFilled
  \/ CallComputeRegions

SpecLayout == InitLayout /\ [][NextLayout]_vars

(***************************************************************************)
(* shuffleInPlace: the Fisher-Yates loop, i from the last index down to 1, *)
(* j any index in 0..i; the set of arrays it can leave.                    *)
(***************************************************************************)
\* faulty variant: arr[j] is copied to arr[i] and arr[i] is lost
swap_CopyOnly(arr, a, b) ==
  [k \in DOMAIN arr |-> IF k = a THEN arr[b] ELSE arr[k]]

swap(arr, a, b) ==
  [k \in DOMAIN arr |-> IF k = a THEN arr[b] ELSE IF k = b THEN arr[a] ELSE arr[k]]

RECURSIVE shuffleFrom(_, _)
shuffleFrom(arr, i) ==
  IF i > 0
  THEN UNION {shuffleFrom(swap(arr, i + 1, j + 1), i - 1) : j \in 0..i}
  ELSE {arr}

shuffleInPlace(arr) == shuffleFrom(arr, Len(arr) - 1)

(***************************************************************************)
(* renderCollageToCanvas                                                   *)
(***************************************************************************)
\* images.filter((i) => i.id !== main.id)
filterSeq(s, excludedId) ==
  LET keep(item) == item.id # excludedId
  IN  SelectSeq(s, keep)

itemsOf(ids) == [k \in DOMAIN ids |-> [id |-> ids[k], file |-> k]]

\* faulty variant: the last image stands in for a mainId that matches no image
findMain_LastWhenUnknown(items, mainId) ==
  IF \E k \in DOMAIN items : items[k].id = mainId
  THEN items[CHOOSE k \in DOMAIN items :
                /\ items[k].id = mainId
                /\ \A q \in 1..(k - 1) : items[q].id # mainId]
  ELSE items[Len(items)]

\* faulty variant: the main image is always the first image
findMain_AlwaysFirst(items, mainId) == items[1]

\* images.find((i) => i.id === mainId) ?? images[0]
findMain(items, mainId) ==
  IF \E k \in DOMAIN items : items[k].id = mainId
  THEN items[CHOOSE k \in DOMAIN items :
                /\ items[k].id = mainId
                /\ \A q \in 1..(k - 1) : items[q].id # mainId]
  ELSE items[1]

progress(phase, done, tot) == [phase |-> phase, done |-> done, total |-> tot]

\* the call ends: it returns ("ok") or throws
finish(res, ev) ==
  /\ pc' = "done"
  /\ result' = res
  /\ events' = ev
  /\ UNCHANGED decodeLog

\* the 'decode' progress event, then decodeImage(item.file) is started and awaited
startDecode(item, at, d, tot, ev) ==
  /\ pc' = at
  /\ events' = Append(ev, progress("decode", d, tot))
  /\ decodeLog' = Append(decodeLog, item)
  /\ UNCHANGED result

(***************************************************************************)
(* The code from the top of loop iteration i (the loop test included) to   *)
(* the next await or the end of the call; d, tot, ev, ord, cs, mn are the  *)
(* values of drawn, totalToDraw, the events so far, the list iterated, the *)
(* cells and the main item.                                                *)
(***************************************************************************)
\* faulty variant: no cancellation check at the top of a loop iteration
loopTop_NoIterationCheck(i, d, tot, ev, ord, cs, mn) ==
  /\ idx' = i
  /\ drawn' = d
  /\ IF i < Len(ord)
     THEN IF rArgs.useMain /\ i + 1 > Len(cs) THEN finish("LayoutShortfall", ev)
          ELSE startDecode(ord[i + 1], "awaitDecode", d, tot, ev)
     ELSE IF ~rArgs.useMain THEN finish("ok", Append(ev, progress("render", d, tot)))
          ELSE IF aborted THEN finish("AbortError", ev)
          ELSE startDecode(mn, "awaitMainDecode", d, tot, ev)

\* faulty variant: an observed cancellation returns instead of throwing
loopTop_ReturnOnAbort(i, d, tot, ev, ord, cs, mn) ==
  /\ idx' = i
  /\ drawn' = d
  /\ IF i < Len(ord)
     THEN IF aborted THEN finish("ok", ev)
          ELSE IF rArgs.useMain /\ i + 1 > Len(cs) THEN finish("LayoutShortfall", ev)
          ELSE startDecode(ord[i + 1], "awaitDecode", d, tot, ev)
     ELSE IF ~rArgs.useMain THEN finish("ok", Append(ev, progress("render", d, tot)))
          ELSE IF aborted THEN finish("ok", ev)
          ELSE startDecode(mn, "awaitMainDecode", d, tot, ev)

\* faulty variant: no cancellation check before the main image's decode
loopTop_NoMainCheck(i, d, tot, ev, ord, cs, mn) ==
  /\ idx' = i
  /\ drawn' = d
  /\ IF i < Len(ord)
     THEN IF aborted THEN finish("AbortError", ev)
          ELSE IF rArgs.useMain /\ i + 1 > Len(cs) THEN finish("LayoutShortfall", ev)
          ELSE startDecode(ord[i + 1], "awaitDecode", d, tot, ev)
     ELSE IF ~rArgs.useMain THEN finish("ok", Append(ev, progress("render", d, tot)))
          ELSE startDecode(mn, "awaitMainDecode", d, tot, ev)

\* faulty variant: the missing cell is noticed only after the image's decode has started
loopTop_LateDestCheck(i, d, tot, ev, ord, cs, mn) ==
  /\ idx' = i
  /\ drawn' = d
  /\ IF i < Len(ord)
     THEN IF aborted THEN finish("AbortError", ev)
          ELSE IF rArgs.useMain /\ i + 1 > Len(cs)
          THEN /\ pc' = "done"
               /\ result' = "LayoutShortfall"
               /\ events' = Append(ev, progress("decode", d, tot))
               /\ decodeLog' = Append(decodeLog, ord[i + 1])
          ELSE startDecode(ord[i + 1], "awaitDecode", d, tot, ev)
     ELSE IF ~rArgs.useMain THEN finish("ok", Append(ev, progress("render", d, tot)))
          ELSE IF aborted THEN finish("AbortError", ev)
          ELSE startDecode(mn, "awaitMainDecode", d, tot, ev)

loopTop(i, d, tot, ev, ord, cs, mn) ==
  /\ idx' = i
  /\ drawn' = d
  /\ IF i < Len(ord)
     THEN IF aborted THEN finish("AbortError", ev)
          ELSE IF rArgs.useMain /\ i + 1 > Len(cs) THEN finish("LayoutShortfall", ev)
          ELSE startDecode(ord[i + 1], "awaitDecode", d, tot, ev)
     ELSE IF ~rArgs.useMain THEN finish("ok", Append(ev, progress("render", d, tot)))
          ELSE IF aborted THEN finish("AbortError", ev)
          ELSE startDecode(mn, "awaitMainDecode", d, tot, ev)

renderSize == Max(MinSize, rArgs.size)

\* the call starts and runs to its first await, or ends
RenderStart ==
  /\ pc = "init"
  /\ UNCHANGED <<layoutVars, pageVars, rArgs, aborted, abortAt, drawLog, held, released,
               failedDecode>>
  /\ IF Len(rArgs.images) = 0
     THEN /\ finish("EmptyInput", events)
          /\ UNCHANGED <<ordered, mainItem, cells, mainRect, idx, drawn, total, filled>>
     ELSE IF ~rArgs.ctxOk
     THEN /\ finish("SurfaceUnavailable", events)
          /\ UNCHANGED <<ordered, mainItem, cells, mainRect, idx, drawn, total, filled>>
     ELSE
       LET ev == Append(events, progress("layout", 0, 1))
           items == itemsOf(rArgs.images)
       IN
       /\ filled' = TRUE
       /\ IF ~rArgs.useMain
          THEN
            \E ord \in (IF rArgs.shuffleOthers THEN shuffleInPlace(items) ELSE {items}) :
            \E cs \in buildCellsFilled(Rect(0, 0, renderSize, renderSize),
                                       Len(ord), rArgs.gap) :
              /\ ordered' = ord
              /\ cells' = cs
              /\ UNCHANGED <<mainItem, mainRect>>
              /\ IF Len(cs) # Len(ord)
                 THEN /\ finish("LayoutShortfall", ev)
                      /\ UNCHANGED <<idx, drawn, total>>
                 ELSE /\ total' = Len(ord)
                      /\ loopTop(0, 0, Len(ord), ev, ord, cs, NoItem)
          ELSE
            LET main == findMain(items, rArgs.mainId)
                others == filterSeq(items, main.id)
            IN
            \E ord \in (IF rArgs.shuffleOthers THEN shuffleInPlace(others) ELSE {others}) :
            \E layout \in computeCollageLayout(
                            [size |-> renderSize, mainRatio |-> rArgs.mainRatio,
                             gap |-> rArgs.gap, othersCount |-> Len(ord)]) :
              /\ ordered' = ord
              /\ mainItem' = main
              /\ cells' = layout.ringCells
              /\ mainRect' = layout.mainRect
              /\ total' = Len(ord) + 1
              /\ loopTop(0, 0, Len(ord) + 1, ev, ord, layout.ringCells, main)

\* the awaited decodeImage resolves: the call holds a decoded image
DecodeResolve ==
  /\ pc \in {"awaitDecode", "awaitMainDecode"}
  /\ pc' = IF pc = "awaitDecode" THEN "decoded" ELSE "mainDecoded"
  /\ held' = held + 1
  /\ UNCHANGED <<layoutVars, pageVars, rArgs, aborted, abortAt, ordered, mainItem, cells, mainRect,
                 idx, drawn, total, events, decodeLog, drawLog, filled, result,
                 released, failedDecode>>

\* faulty variant: a rejected decode is caught and the image is skipped
DecodeReject_SkipImage ==
  /\ pc \in {"awaitDecode", "awaitMainDecode"}
  /\ failedDecode' = decodeLog[Len(decodeLog)]
  /\ IF pc = "awaitDecode"
     THEN loopTop(idx + 1, drawn, total, events, ordered, cells, mainItem)
     ELSE /\ finish("ok", Append(events, progress("render", drawn, total)))
          /\ UNCHANGED <<idx, drawn>>
  /\ UNCHANGED <<layoutVars, pageVars, rArgs, aborted, abortAt, ordered, mainItem, cells, mainRect,
                 total, drawLog, filled, held, released>>

\* the awaited decodeImage rejects: the failure propagates
DecodeReject ==
  /\ pc \in {"awaitDecode", "awaitMainDecode"}
  /\ failedDecode' = decodeLog[Len(decodeLog)]
  /\ finish("DecodeFailure", events)
  /\ UNCHANGED <<layoutVars, pageVars, rArgs, aborted, abortAt, ordered, mainItem, cells, mainRect,
                 idx, drawn, total, drawLog, filled, held, released>>

\* faulty variant: the destination is the cell after the image's own
DrawStep_CellOffByOne ==
  /\ pc = "decoded"
  /\ drawLog' = Append(drawLog,
                       [item |-> ordered[idx + 1],
                        dest |-> cells[IF idx + 2 <= Len(cells) THEN idx + 2 ELSE 1]])
  /\ held' = held - 1
  /\ released' = Append(released, ordered[idx + 1])
  /\ UNCHANGED <<layoutVars, pageVars, rArgs, aborted, abortAt, ordered, mainItem, cells, mainRect,
                 total, filled, failedDecode>>
  /\ LET ev == Append(events, progress("render", drawn, total))
     IN  IF idx % FrameEvery = 0
         THEN /\ pc' = "awaitFrame"
              /\ drawn' = drawn + 1
              /\ events' = ev
              /\ UNCHANGED <<idx, decodeLog, result>>
         ELSE loopTop(idx + 1, drawn + 1, total, ev, ordered, cells, mainItem)

\* faulty variant: the 'render' event is emitted after drawn += 1
DrawStep_EventAfterCount ==
  /\ pc = "decoded"
  /\ drawLog' = Append(drawLog, [item |-> ordered[idx + 1], dest |-> cells[idx + 1]])
  /\ held' = held - 1
  /\ released' = Append(released, ordered[idx + 1])
  /\ UNCHANGED <<layoutVars, pageVars, rArgs, aborted, abortAt, ordered, mainItem, cells, mainRect,
                 total, filled, failedDecode>>
  /\ LET ev == Append(events, progress("render", drawn + 1, total))
     IN  IF idx % FrameEvery = 0
         THEN /\ pc' = "awaitFrame"
              /\ drawn' = drawn + 1
              /\ events' = ev
              /\ UNCHANGED <<idx, decodeLog, result>>
         ELSE loopTop(idx + 1, drawn + 1, total, ev, ordered, cells, mainItem)

\* try { 'render' event; drawImageCover } finally { close }, drawn += 1, then
\* the frame yield of every 4th iteration or the next iteration
DrawStep ==
  /\ pc = "decoded"
  /\ drawLog' = Append(drawLog, [item |-> ordered[idx + 1], dest |-> cells[idx + 1]])
  /\ held' = held - 1
  /\ released' = Append(released, ordered[idx + 1])
  /\ UNCHANGED <<layoutVars, pageVars, rArgs, aborted, abortAt, ordered, mainItem, cells, mainRect,
                 total, filled, failedDecode>>
  /\ LET ev == Append(events, progress("render", drawn, total))
     IN  IF idx % FrameEvery = 0
         THEN /\ pc' = "awaitFrame"
              /\ drawn' = drawn + 1
              /\ events' = ev
              /\ UNCHANGED <<idx, decodeLog, result>>
         ELSE loopTop(idx + 1, drawn + 1, total, ev, ordered, cells, mainItem)

\* the 'render' progress callback throws inside the try block: no draw, the
\* decoded image is released, the failure propagates
RenderCallbackThrows ==
  /\ pc \in {"decoded", "mainDecoded"}
  /\ held' = held - 1
  /\ released' = Append(released, decodeLog[Len(decodeLog)])
  /\ finish("CallbackFailure", Append(events, progress("render", drawn, total)))
  /\ UNCHANGED <<layoutVars, pageVars, rArgs, aborted, abortAt, ordered, mainItem, cells, mainRect,
                 idx, drawn, total, drawLog, filled, failedDecode>>

\* faulty variant: no finally block, a throwing draw leaves the image unreleased
DrawThrows_NoRelease ==
  /\ pc \in {"decoded", "mainDecoded"}
  /\ drawLog' = Append(drawLog,
                       IF pc = "decoded"
                       THEN [item |-> ordered[idx + 1], dest |-> cells[idx + 1]]
                       ELSE [item |-> mainItem, dest |-> mainRect])
  /\ finish("DrawFailure", Append(events, progress("render", drawn, total)))
  /\ UNCHANGED <<layoutVars, pageVars, rArgs, aborted, abortAt, ordered, mainItem, cells, mainRect,
                 idx, drawn, total, filled, failedDecode, held, released>>

\* ctx.drawImage throws: the draw was attempted, the decoded image is released,
\* the failure propagates
DrawThrows ==
  /\ pc \in {"decoded", "mainDecoded"}
  /\ drawLog' = Append(drawLog,
                       IF pc = "decoded"
                       THEN [item |-> ordered[idx + 1], dest |-> cells[idx + 1]]
                       ELSE [item |-> mainItem, dest |-> mainRect])
  /\ held' = held - 1
  /\ released' = Append(released, decodeLog[Len(decodeLog)])
  /\ finish("DrawFailure", Append(events, progress("render", drawn, total)))
  /\ UNCHANGED <<layoutVars, pageVars, rArgs, aborted, abortAt, ordered, mainItem, cells, mainRect,
                 idx, drawn, total, filled, failedDecode>>

\* faulty variant: the final event reports the ring count as its total
MainDrawStep_RingTotal ==
  /\ pc = "mainDecoded"
  /\ drawLog' = Append(drawLog, [item |-> mainItem, dest |-> mainRect])
  /\ held' = held - 1
  /\ released' = Append(released, mainItem)
  /\ drawn' = drawn + 1
  /\ finish("ok", events \o << progress("render", drawn, total),
                               progress("render", drawn + 1, Len(ordered)) >>)
  /\ UNCHANGED <<layoutVars, pageVars, rArgs, aborted, abortAt, ordered, mainItem, cells, mainRect,
                 idx, total, filled, failedDecode>>

\* the main image: 'render' event, draw into mainRect, release, final event
MainDrawStep ==
  /\ pc = "mainDecoded"
  /\ drawLog' = Append(drawLog, [item |-> mainItem, dest |-> mainRect])
  /\ held' = held - 1
  /\ released' = Append(released, mainItem)
  /\ drawn' = drawn + 1
  /\ finish("ok", events \o << progress("render", drawn, total),
                               progress("render", drawn + 1, total) >>)
  /\ UNCHANGED <<layoutVars, pageVars, rArgs, aborted, abortAt, ordered, mainItem, cells, mainRect,
                 idx, total, filled, failedDecode>>

\* the awaited nextFrame resolves: the next iteration starts
FrameResolve ==
  /\ pc = "awaitFrame"
  /\ loopTop(idx + 1, drawn, total, events, ordered, cells, mainItem)
  /\ UNCHANGED <<layoutVars, pageVars, rArgs, aborted, abortAt, ordered, mainItem, cells, mainRect,
                 total, drawLog, filled, held, released, failedDecode>>

\* the caller aborts the signal: before the call, or while the call is
\* suspended at an await
Abort ==
  /\ pc \in {"init", "awaitDecode", "awaitFrame", "awaitMainDecode"}
  /\ ~aborted
  /\ aborted' = TRUE
  /\ abortAt' = [pc |-> pc, idx |-> idx, decodes |-> Len(decodeLog), draws |-> Len(drawLog)]
  /\ UNCHANGED <<layoutVars, pageVars, rArgs, pc, ordered, mainItem, cells, mainRect, idx, drawn,
                 total, events, decodeLog, drawLog, filled, held, result,
                 released, failedDecode>>

(***************************************************************************)
(* Arguments of the render calls                                           *)
(***************************************************************************)
\* lists of distinct ids, and short lists in which ids may repeat
ImageLists ==
  {[k \in 1..n |-> k] : n \in 0..MaxImages}
    \cup UNION {[1..n -> 1..MaxIds] : n \in 0..MaxRepeat}

\* main mode with every mainId (0 matches no image); flat mode, which does
\* not read mainId, with two of them
SmallRenderArgs ==
  [images : ImageLists, mainId : 0..MaxImages, useMain : {TRUE}, shuffleOthers : BOOLEAN,
   size : {MinSize}, mainRatio : {50}, gap : {0, 3}, ctxOk : BOOLEAN]
    \cup
  [images : ImageLists, mainId : {0, 1}, useMain : {FALSE}, shuffleOthers : BOOLEAN,
   size : {MinSize}, mainRatio : {50}, gap : {0, 3}, ctxOk : BOOLEAN]

\* main mode with one ring image more than the thinnest ring has pixels
CrowdedRingArgs ==
  [images |-> [k \in 1..(ringAreaOf(MinSize, MaxRatioPct) + 2) |-> k], mainId |-> 1,
   useMain |-> TRUE, shuffleOthers |-> FALSE, size |-> MinSize,
   mainRatio |-> MaxRatioPct, gap |-> 0, ctxOk |-> TRUE]

\* flat mode with one image more than the smallest canvas has pixels
CrowdedFlatArgs ==
  [images |-> [k \in 1..(MinSize * MinSize + 1) |-> k], mainId |-> 1,
   useMain |-> FALSE, shuffleOthers |-> FALSE, size |-> MinSize,
   mainRatio |-> 50, gap |-> 0, ctxOk |-> TRUE]

RenderArgs == SmallRenderArgs \cup {CrowdedRingArgs, CrowdedFlatArgs}

InitRender ==
  /\ fn = "none"
  /\ fnArgs = <<>>
  /\ fnDone = FALSE
  /\ fnOut = <<>>
  /\ rArgs \in RenderArgs
  /\ pc = "init"
  /\ aborted = FALSE
  /\ ordered = <<>>
  /\ mainItem = NoItem
  /\ cells = <<>>
  /\ mainRect = NoRect
  /\ idx = 0
  /\ drawn = 0
  /\ total = 0
  /\ events = <<>>
  /\ decodeLog = <<>>
  /\ drawLog = <<>>
  /\ filled = FALSE
  /\ held = 0
  /\ result = "none"
  /\ abortAt = NoAbort
  /\ released = <<>>
  /\ failedDecode = NoItem
  /\ pageIdle

NextRender ==
  \/ RenderStart
  \/ DecodeResolve
  \/ DecodeReject
  \/ DrawStep
  \/ RenderCallbackThrows
  \/ DrawThrows
  \/ MainDrawStep
  \/ FrameResolve
  \/ Abort

SpecRender == InitRender /\ [][NextRender]_vars

(***************************************************************************)
(* Geometry used by the properties                                         *)
(***************************************************************************)
rectArea(r) == r.width * r.height

overlapArea(a, b) ==
  Max(0, Min(a.x + a.width, b.x + b.width) - Max(a.x, b.x))
    * Max(0, Min(a.y + a.height, b.y + b.height) - Max(a.y, b.y))

inside(a, b) ==
  /\ a.x >= b.x /\ a.y >= b.y
  /\ a.x + a.width <= b.x + b.width
  /\ a.y + a.height <= b.y + b.height

rowMajor(cs) ==
  \A i, j \in DOMAIN cs :
     i < j => \/ cs[i].y < cs[j].y
              \/ cs[i].y = cs[j].y /\ cs[i].x < cs[j].x

layoutReturned == fn = "computeCollageLayout" /\ fnDone

layoutRegions == computeRegions(fnOut.size, fnArgs.mainRatio).regions

layoutOthers == Max(0, fnArgs.othersCount)

layoutRingArea == fnOut.size * fnOut.size - rectArea(fnOut.mainRect)

(***************************************************************************)
(* C1 (as stated): for every options value computeCollageLayout returns a  *)
(* layout whose ringCells has exactly othersCount entries.                 *)
(***************************************************************************)
C1_RingCountAlwaysN ==
  layoutReturned => Len(fnOut.ringCells) = layoutOthers

(***************************************************************************)
(* C1 (amended): ringCells has exactly othersCount entries whenever        *)
(* othersCount is at most the ring's pixel area size^2 - mainSize^2; for a *)
(* larger othersCount it has fewer entries.                                *)
(***************************************************************************)
C1_RingCountWhenFits ==
  layoutReturned =>
    /\ layoutOthers <= layoutRingArea => Len(fnOut.ringCells) = layoutOthers
    /\ layoutOthers > layoutRingArea => Len(fnOut.ringCells) < layoutOthers

C1_Witness ==
  /\ layoutReturned
  /\ layoutOthers = layoutRingArea
  /\ fnArgs.gap > 0
  /\ Len(fnOut.ringCells) = layoutOthers

(***************************************************************************)
(* C2 (as stated): buildCellsFilled returns an empty list only when n = 0  *)
(* or the rectangle has zero area; for n > 0 and a rectangle of positive   *)
(* area it returns exactly n cells.                                        *)
(***************************************************************************)
packerReturned == fn = "buildCellsFilled" /\ fnDone

C2_PackerAlwaysFills ==
  packerReturned =>
    /\ fnOut = <<>> => (fnArgs.count = 0 \/ rectArea(fnArgs.rect) = 0)
    /\ (fnArgs.count > 0 /\ rectArea(fnArgs.rect) > 0) => Len(fnOut) = fnArgs.count

(***************************************************************************)
(* C2 (amended): buildCellsFilled returns the empty list when n = 0, when  *)
(* the rectangle has zero area, and when n exceeds the rectangle's pixel   *)
(* count W * H; for every n with 0 < n <= W * H and every gap >= 0 it      *)
(* returns exactly n cells after the gap-reduction fallback chain.         *)
(***************************************************************************)
C2_PackerFillsWhenFits ==
  packerReturned =>
    /\ (fnArgs.count = 0 \/ rectArea(fnArgs.rect) = 0) => fnOut = <<>>
    /\ fnArgs.count > rectArea(fnArgs.rect) => fnOut = <<>>
    /\ (0 < fnArgs.count /\ fnArgs.count <= rectArea(fnArgs.rect))
         => Len(fnOut) = fnArgs.count

\* n cells although the requested gap is infeasible for every row count
C2_Witness ==
  /\ packerReturned
  /\ fnArgs.count > 1
  /\ Len(fnOut) = fnArgs.count
  /\ \A o \in tryBuildCellsFilled(fnArgs.rect, fnArgs.count, fnArgs.gap) : o.null

(***************************************************************************)
(* C3: for every total >= 0 and four regions of positive area the counts   *)
(* returned by allocateCounts are non-negative and sum to total.           *)
(***************************************************************************)
countsSum(c) == c["top"] + c["right"] + c["bottom"] + c["left"]

C3_CountsSumToTotal ==
  (fn = "allocateCounts" /\ fnDone) =>
    /\ \A nm \in DOMAIN fnOut : fnOut[nm] \in Nat
    /\ countsSum(fnOut) = fnArgs.total

\* some region's count was rounded up by the remainder distribution
C3_Witness ==
  /\ fn = "allocateCounts" /\ fnDone
  /\ countsSum(fnOut) = fnArgs.total
  /\ \E i \in 1..4 :
        fnOut[fnArgs.regions[i].name]
            * SumSeq([k \in 1..4 |-> fnArgs.regions[k].area])
          > fnArgs.regions[i].area * fnArgs.total

(***************************************************************************)
(* C4: in every layout returned by computeCollageLayout, mainRect and all  *)
(* ringCells are pairwise non-overlapping.                                 *)
(***************************************************************************)
layoutRects == <<fnOut.mainRect>> \o fnOut.ringCells

C4_NoOverlap ==
  layoutReturned =>
    \A i, j \in DOMAIN layoutRects :
       i < j => overlapArea(layoutRects[i], layoutRects[j]) = 0

\* cells of all four regions are present
C4_Witness ==
  /\ layoutReturned
  /\ Len(fnOut.ringCells) = layoutOthers
  /\ \A i \in 1..4 :
        \E k \in DOMAIN fnOut.ringCells :
           inside(fnOut.ringCells[k], layoutRegions[i].rect)

(***************************************************************************)
(* C5: in every layout returned by computeCollageLayout, mainRect and      *)
(* every ring cell lie inside the canvas [0, size] x [0, size].            *)
(***************************************************************************)
C5_InsideCanvas ==
  layoutReturned =>
    \A i \in DOMAIN layoutRects :
       inside(layoutRects[i], Rect(0, 0, fnOut.size, fnOut.size))

\* a ring cell touches the right and bottom edges of the canvas
C5_Witness ==
  /\ layoutReturned
  /\ \E k \in DOMAIN fnOut.ringCells :
        /\ fnOut.ringCells[k].x + fnOut.ringCells[k].width = fnOut.size
        /\ fnOut.ringCells[k].y + fnOut.ringCells[k].height = fnOut.size

(***************************************************************************)
(* C6 (as stated): with c = allocateCounts(othersCount, regions), ringCells*)
(* is the first c.top cells inside the top rect, then c.right inside the   *)
(* right rect, then c.bottom inside the bottom rect, then c.left inside    *)
(* the left rect, each region's cells in row-major order.                  *)
(***************************************************************************)
layoutCounts == allocateCounts(layoutOthers, layoutRegions)

segmentsInOrder(k) ==
  /\ Len(fnOut.ringCells) = SumSeq(k)
  /\ \A i \in 1..4 :
        LET from == SumSeq(Prefix(k, i - 1))
            seg == SubSeq(fnOut.ringCells, from + 1, from + k[i])
        IN  /\ \A c \in DOMAIN seg : inside(seg[c], layoutRegions[i].rect)
            /\ rowMajor(seg)

C6_RegionOrder ==
  layoutReturned =>
    segmentsInOrder([i \in 1..4 |-> layoutCounts[layoutRegions[i].name]])

(***************************************************************************)
(* C6 (amended): ringCells is the concatenation, in the order top, right,  *)
(* bottom, left, of the cells built for each region, each region's cells   *)
(* inside its rect and in row-major order; a region contributes its        *)
(* allocated count of cells when that count is at most the region's pixel  *)
(* area (always the case when othersCount <= ring area) and no cell        *)
(* otherwise.                                                              *)
(***************************************************************************)
C6_RegionOrderOfBuiltCells ==
  layoutReturned =>
    segmentsInOrder(
      [i \in 1..4 |->
         IF layoutCounts[layoutRegions[i].name] <= layoutRegions[i].area
         THEN layoutCounts[layoutRegions[i].name] ELSE 0])

\* every region contributes at least two cells and some region has two rows
C6_Witness ==
  /\ layoutReturned
  /\ \A i \in 1..4 : layoutCounts[layoutRegions[i].name] >= 2
  /\ Len(fnOut.ringCells) = layoutOthers
  /\ \E a, b \in DOMAIN fnOut.ringCells :
        /\ a < b
        /\ inside(fnOut.ringCells[a], layoutRegions[1].rect)
        /\ inside(fnOut.ringCells[b], layoutRegions[1].rect)
        /\ fnOut.ringCells[a].y < fnOut.ringCells[b].y

(***************************************************************************)
(* Observations of a render call used by the properties                    *)
(***************************************************************************)
hasFinalEvent ==
  \E k \in DOMAIN events :
     events[k].phase = "render" /\ events[k].done = events[k].total

decodePending(at) == at.pc \in {"awaitDecode", "awaitMainDecode"}

\* the signal was set after the last cancellation check of the call: while the
\* main image's decode is awaited (main mode), or during the last iteration
\* of the loop (flat mode)
afterLastCheck(at) ==
  IF rArgs.useMain
  THEN at.pc = "awaitMainDecode"
  ELSE at.pc \in {"awaitDecode", "awaitFrame"} /\ at.idx = Len(ordered) - 1

(***************************************************************************)
(* C7 (as stated): once the cancellation signal is set during a render     *)
(* call, no decode is started and no image is drawn after that moment.     *)
(***************************************************************************)
C7_NoWorkAfterAbort ==
  aborted =>
    /\ Len(decodeLog) = abortAt.decodes
    /\ Len(drawLog) = abortAt.draws

(***************************************************************************)
(* C7 (amended): once the cancellation signal is set, before the call or   *)
(* while the call is suspended at an await, no decode is started after     *)
(* that moment, and no image is drawn after it except the one image whose  *)
(* decode was being awaited when the signal was set, which is still drawn  *)
(* when its decode resolves.                                               *)
(***************************************************************************)
C7_OnlyPendingImageAfterAbort ==
  aborted =>
    /\ Len(decodeLog) = abortAt.decodes
    /\ Len(drawLog) <= abortAt.draws + (IF decodePending(abortAt) THEN 1 ELSE 0)
    /\ Len(drawLog) > abortAt.draws =>
         drawLog[Len(drawLog)].item = decodeLog[abortAt.decodes]

\* the signal is set during a decode, the pending image is drawn, and the next
\* iteration raises the cancellation
C7_Witness ==
  /\ aborted
  /\ abortAt.pc = "awaitDecode"
  /\ Len(drawLog) = abortAt.draws + 1
  /\ Len(ordered) > abortAt.idx + 1
  /\ result = "AbortError"

(***************************************************************************)
(* C8 (as stated): whenever the cancellation signal becomes set before a   *)
(* render call has finished, the call ends by raising AbortError; it never *)
(* completes successfully and never emits the final 'render' event with    *)
(* done = total.                                                           *)
(***************************************************************************)
C8_AbortAlwaysRaises ==
  aborted =>
    /\ result # "ok"
    /\ ~hasFinalEvent
    /\ pc = "done" => result = "AbortError"

(***************************************************************************)
(* C8 (amended): whenever the cancellation signal becomes set before the   *)
(* call's last cancellation check (the top of the last loop iteration in   *)
(* flat mode, the check before the main image's decode in main mode), the  *)
(* call never completes successfully and never emits the final 'render'    *)
(* event: it ends with AbortError at the next check it reaches, unless a   *)
(* failure of the image in flight or of the call's preconditions ends it   *)
(* first.  AbortError is raised only when the signal is set.               *)
(***************************************************************************)
C8_AbortBeforeLastCheckRaises ==
  /\ result = "AbortError" => aborted
  /\ (aborted /\ ~afterLastCheck(abortAt)) =>
       /\ result # "ok"
       /\ ~hasFinalEvent
       /\ (pc = "done" /\ result # "AbortError") =>
            \/ result \in {"EmptyInput", "SurfaceUnavailable", "LayoutShortfall"}
                 /\ abortAt.pc = "init"
            \/ result \in {"DecodeFailure", "CallbackFailure", "DrawFailure"}
                 /\ decodePending(abortAt)

\* the signal is set during a frame yield and the next iteration raises
C8_Witness ==
  /\ aborted
  /\ abortAt.pc = "awaitFrame"
  /\ ~afterLastCheck(abortAt)
  /\ pc = "done"
  /\ result = "AbortError"

(***************************************************************************)
(* C9 (as stated): if the signal is already set when the call is made with *)
(* a non-empty image list, the call raises AbortError with zero decodes    *)
(* and zero draws; the only canvas operation is the background fill.       *)
(***************************************************************************)
presetAbort == aborted /\ abortAt.pc = "init" /\ Len(rArgs.images) > 0

C9_PresetAbortRaises ==
  presetAbort =>
    /\ decodeLog = <<>>
    /\ drawLog = <<>>
    /\ pc = "done" => (result = "AbortError" /\ filled)

(***************************************************************************)
(* C9 (amended): if the signal is already set when the call is made with a *)
(* non-empty image list, no image is decoded or drawn; the call raises     *)
(* AbortError after the background fill, in main mode for any number of    *)
(* images and in flat mode, provided the canvas yields a 2D context and,   *)
(* in flat mode, the packer allocates a cell for every image.  Without a   *)
(* context it raises SurfaceUnavailable before the fill; in flat mode with *)
(* more images than canvas pixels it raises LayoutAllocationShortfall.     *)
(***************************************************************************)
flatOverfull ==
  ~rArgs.useMain /\ Len(rArgs.images) > renderSize * renderSize

C9_PresetAbortNoImageWork ==
  presetAbort =>
    /\ decodeLog = <<>>
    /\ drawLog = <<>>
    /\ pc = "done" =>
         /\ filled = rArgs.ctxOk
         /\ result = IF ~rArgs.ctxOk THEN "SurfaceUnavailable"
                     ELSE IF flatOverfull THEN "LayoutShortfall"
                     ELSE "AbortError"

\* main mode with a single image: the check before the main image's decode
C9_Witness ==
  /\ presetAbort
  /\ rArgs.useMain
  /\ Len(rArgs.images) = 1
  /\ pc = "done"
  /\ result = "AbortError"
  /\ filled
  /\ decodeLog = <<>>

(***************************************************************************)
(* C10 (as stated): whenever the call fails with EmptyInput,               *)
(* SurfaceUnavailable or LayoutAllocationShortfall, the failure is raised  *)
(* before any image has been decoded or drawn, in main and in flat mode.   *)
(***************************************************************************)
C10_FailuresBeforeAnyImage ==
  result \in {"EmptyInput", "SurfaceUnavailable", "LayoutShortfall"} =>
    /\ decodeLog = <<>>
    /\ drawLog = <<>>

(***************************************************************************)
(* C10 (amended): EmptyInput and SurfaceUnavailable are raised before any  *)
(* image has been decoded or drawn, and so is LayoutAllocationShortfall in *)
(* flat mode; in main mode LayoutAllocationShortfall is raised at the      *)
(* first ring image that has no cell, after every ring image that has a    *)
(* cell has been decoded and drawn.                                        *)
(***************************************************************************)
C10_ShortfallAtFirstMissingCell ==
  /\ result \in {"EmptyInput", "SurfaceUnavailable"} =>
       (decodeLog = <<>> /\ drawLog = <<>> /\ ~filled)
  /\ (result = "LayoutShortfall" /\ ~rArgs.useMain) =>
       (decodeLog = <<>> /\ drawLog = <<>>)
  /\ (result = "LayoutShortfall" /\ rArgs.useMain) =>
       /\ Len(cells) < Len(ordered)
       /\ Len(decodeLog) = Len(cells)
       /\ Len(drawLog) = Len(cells)

C10_Witness ==
  /\ result = "LayoutShortfall"
  /\ rArgs.useMain
  /\ Len(drawLog) > 0

(***************************************************************************)
(* C11: when the decode of the image being processed rejects, the call     *)
(* rejects with that failure: the call has ended with DecodeFailure, the   *)
(* failing image is the last one whose decode was started (the image at    *)
(* the current position, or the main image), every image before it was     *)
(* drawn and the failing one was not, and no final 'render' event with     *)
(* done = total has been emitted.                                          *)
(***************************************************************************)
processedItem ==
  IF idx < Len(ordered) THEN ordered[idx + 1] ELSE mainItem

C11_DecodeFailureEndsCall ==
  /\ result = "DecodeFailure" => failedDecode # NoItem
  /\ failedDecode # NoItem =>
       /\ pc = "done"
       /\ result = "DecodeFailure"
       /\ failedDecode = processedItem
       /\ decodeLog[Len(decodeLog)] = failedDecode
       /\ Len(drawLog) = Len(decodeLog) - 1
       /\ \A k \in DOMAIN drawLog : drawLog[k].item # failedDecode
       /\ ~hasFinalEvent

\* the third image fails to decode while a fourth one is still to come
C11_Witness ==
  /\ failedDecode # NoItem
  /\ Len(decodeLog) = 3
  /\ Len(drawLog) = 2
  /\ Len(ordered) > 3
  /\ result = "DecodeFailure"

(***************************************************************************)
(* C12: every decoded image obtained during a call is released exactly     *)
(* once, after its draw attempt (or after the 'render' callback threw      *)
(* before the draw), whether the draw or the callback succeeds or throws:  *)
(* the released images are, in order, the images whose decode resolved,    *)
(* each one once; at most one decoded image is unreleased at any time,     *)
(* and only between its decode and its draw; none is unreleased when the   *)
(* call has ended, with success, cancellation or error.                    *)
(***************************************************************************)
decodesResolved ==
  Len(decodeLog) -
    (IF pc \in {"awaitDecode", "awaitMainDecode"} \/ failedDecode # NoItem THEN 1 ELSE 0)

C12_ReleasedExactlyOnce ==
  /\ held \in {0, 1}
  /\ held = 1 <=> pc \in {"decoded", "mainDecoded"}
  /\ pc = "done" => held = 0
  /\ Len(released) + held = decodesResolved
  /\ \A k \in DOMAIN released : released[k] = decodeLog[k]
  /\ Cardinality({released[k] : k \in DOMAIN released}) = Len(released)
  /\ Len(released) = Len(drawLog) + (IF result = "CallbackFailure" THEN 1 ELSE 0)
  /\ \A k \in DOMAIN drawLog : drawLog[k].item = released[k]

\* the third draw throws after two images were drawn and released
C12_Witness ==
  /\ result = "DrawFailure"
  /\ Len(drawLog) = 3
  /\ Len(released) = 3
  /\ held = 0

(***************************************************************************)
(* C13 (as stated): across the whole sequence of progress events of one    *)
(* call, done never decreases and total has the same value in every        *)
(* event: the number of ring images + 1 in main mode, the number of images *)
(* in flat mode.                                                           *)
(***************************************************************************)
expectedTotal ==
  IF rArgs.useMain THEN Len(ordered) + 1 ELSE Len(rArgs.images)

doneNeverDecreases ==
  \A k \in 1..(Len(events) - 1) : events[k].done <= events[k + 1].done

C13_TotalSameInEveryEvent ==
  /\ doneNeverDecreases
  /\ \A k \in DOMAIN events : events[k].total = expectedTotal

(***************************************************************************)
(* C13 (amended): across the whole sequence of progress events of one      *)
(* call, done never decreases, and total has the same value in every       *)
(* 'decode' and 'render' event: the number of ring images + 1 in main      *)
(* mode, the number of images in flat mode.  The one 'layout' event, the   *)
(* first event of the call, carries done = 0 and total = 1 whatever the    *)
(* number of images.                                                       *)
(***************************************************************************)
C13_TotalSameAfterLayout ==
  /\ doneNeverDecreases
  /\ \A k \in DOMAIN events :
        IF k = 1
        THEN events[k] = progress("layout", 0, 1)
        ELSE /\ events[k].phase \in {"decode", "render"}
             /\ events[k].total = expectedTotal
             /\ events[k].done \in 0..expectedTotal

\* a successful main-mode call with three ring images: total is 4 in every
\* event after the layout event
C13_Witness ==
  /\ result = "ok"
  /\ rArgs.useMain
  /\ Len(ordered) = 3
  /\ Len(events) = 10
  /\ events[Len(events)] = progress("render", 4, 4)

(***************************************************************************)
(* C14: on a successful call the progress events are, in order: one        *)
(* 'layout' event; then for each image (the ring images in placement       *)
(* order, the main image last in main mode) one 'decode' event immediately *)
(* followed by one 'render' event, both with done = the number of images   *)
(* already drawn; then one final 'render' event with done = total.         *)
(***************************************************************************)
processingOrder ==
  IF rArgs.useMain THEN Append(ordered, mainItem) ELSE ordered

C14_EventOrderOnSuccess ==
  result = "ok" =>
    LET n == Len(processingOrder) IN
    /\ n = expectedTotal
    /\ Len(events) = 2 * n + 2
    /\ events[1].phase = "layout"
    /\ \A k \in 1..n :
          /\ events[2 * k] = progress("decode", k - 1, n)
          /\ events[2 * k + 1] = progress("render", k - 1, n)
    /\ events[2 * n + 2] = progress("render", n, n)
    /\ decodeLog = processingOrder
    /\ [k \in DOMAIN drawLog |-> drawLog[k].item] = processingOrder

\* a successful flat-mode call with three images
C14_Witness ==
  /\ result = "ok"
  /\ ~rArgs.useMain
  /\ Len(ordered) = 3
  /\ Len(events) = 8

(***************************************************************************)
(* C15: in main mode with shuffleOthers = false and a mainId that matches  *)
(* one image of the list, every draw of the call follows the input order:  *)
(* the i-th image of the input list with the main image removed is drawn   *)
(* into ringCells[i], and the image with id mainId is drawn into mainRect  *)
(* after all ring images; a successful call has made all of these draws,   *)
(* and its ringCells and mainRect are those of computeCollageLayout for    *)
(* the call's size, mainRatio and gap and the number of ring images.       *)
(***************************************************************************)
mainPositions == {k \in DOMAIN rArgs.images : rArgs.images[k] = rArgs.mainId}

mainInOrderCase ==
  /\ rArgs.useMain
  /\ ~rArgs.shuffleOthers
  /\ Cardinality(mainPositions) = 1
  /\ filled

\* the input list with the image at position m removed
withoutPosition(items, m) ==
  [i \in 1..(Len(items) - 1) |-> IF i < m THEN items[i] ELSE items[i + 1]]

C15_MainModeKeepsInputOrder ==
  mainInOrderCase =>
    LET items == itemsOf(rArgs.images)
        m == CHOOSE k \in mainPositions : TRUE
        ring == withoutPosition(items, m)
    IN
    /\ Len(drawLog) <= Len(ring) + 1
    /\ \A k \in DOMAIN drawLog :
          drawLog[k] = IF k <= Len(ring)
                       THEN [item |-> ring[k], dest |-> cells[k]]
                       ELSE [item |-> items[m], dest |-> mainRect]
    /\ result = "ok" =>
         /\ Len(drawLog) = Len(ring) + 1
         /\ \E layout \in computeCollageLayout(
                           [size |-> renderSize, mainRatio |-> rArgs.mainRatio,
                            gap |-> rArgs.gap, othersCount |-> Len(ring)]) :
              cells = layout.ringCells /\ mainRect = layout.mainRect

\* four images, the third one is the main image: the first, second and
\* fourth are drawn into ring cells 1, 2, 3 and the third into mainRect
C15_Witness ==
  /\ mainInOrderCase
  /\ rArgs.images = <<1, 2, 3, 4>>
  /\ rArgs.mainId = 3
  /\ result = "ok"
  /\ [k \in 1..4 |-> drawLog[k].item.id] = <<1, 2, 4, 3>>
  /\ drawLog[4].dest = mainRect

(***************************************************************************)
(* C16: in flat mode (useMain false) the list iterated is the input list,  *)
(* shuffled or not; every draw puts the i-th image of that list into the   *)
(* i-th cell, there is no main image and no main rectangle; when the call  *)
(* has succeeded (or failed for lack of cells) the cells are those of one  *)
(* buildCellsFilled call on the full canvas {0, 0, size, size} with count  *)
(* = the number of images, and a successful call has drawn exactly as many *)
(* cells as there are images.                                              *)
(***************************************************************************)
flatCase == ~rArgs.useMain /\ filled

isPermutation(s, t) ==
  /\ Len(s) = Len(t)
  /\ {s[k] : k \in DOMAIN s} = {t[k] : k \in DOMAIN t}

C16_FlatModeOneToOne ==
  flatCase =>
    LET items == itemsOf(rArgs.images) IN
    /\ result \in {"ok", "LayoutShortfall"} =>
         cells \in buildCellsFilled(Rect(0, 0, renderSize, renderSize),
                                    Len(rArgs.images), rArgs.gap)
    /\ IF rArgs.shuffleOthers THEN isPermutation(ordered, items) ELSE ordered = items
    /\ mainItem = NoItem
    /\ mainRect = NoRect
    /\ Len(drawLog) <= Len(ordered)
    /\ \A k \in DOMAIN drawLog :
          drawLog[k] = [item |-> ordered[k], dest |-> cells[k]]
    /\ result = "ok" =>
         /\ Len(drawLog) = Len(rArgs.images)
         /\ Len(cells) = Len(rArgs.images)

\* a successful flat-mode call that shuffled its four images
C16_Witness ==
  /\ flatCase
  /\ rArgs.shuffleOthers
  /\ Len(rArgs.images) = 4
  /\ ordered # itemsOf(rArgs.images)
  /\ result = "ok"
  /\ Len(drawLog) = 4

(***************************************************************************)
(* C17: for size = 100, mainRatio = 0.5, gap = 0, othersCount = 12,        *)
(* computeCollageLayout yields mainRect = {25, 25, 50, 50}; 4 cells are    *)
(* assigned to top, 2 to right, 4 to bottom and 2 to left; the cells of    *)
(* each strip lie inside it, do not overlap, and their areas sum to the    *)
(* strip's area (100 x 25 for top and bottom, 25 x 50 for left and right); *)
(* mainRect and the 12 ring cells cover the 100 x 100 canvas.              *)
(***************************************************************************)
scenarioAReturned == layoutReturned /\ fnArgs = ScenarioA

scenarioAStrips ==
  << Rect(0, 0, 100, 25), Rect(75, 25, 25, 50), Rect(0, 75, 100, 25), Rect(0, 25, 25, 50) >>

scenarioACounts == <<4, 2, 4, 2>>

tilesExactly(cs, strip) ==
  /\ \A k \in DOMAIN cs : inside(cs[k], strip) /\ rectArea(cs[k]) > 0
  /\ \A i, j \in DOMAIN cs : i < j => overlapArea(cs[i], cs[j]) = 0
  /\ SumSeq([k \in DOMAIN cs |-> rectArea(cs[k])]) = rectArea(strip)

C17_ScenarioATiles ==
  scenarioAReturned =>
    /\ fnOut.size = 100
    /\ fnOut.mainRect = Rect(25, 25, 50, 50)
    /\ layoutCounts = [top |-> 4, right |-> 2, bottom |-> 4, left |-> 2]
    /\ Len(fnOut.ringCells) = 12
    /\ \A i \in 1..4 :
          LET from == SumSeq(Prefix(scenarioACounts, i - 1))
          IN  tilesExactly(SubSeq(fnOut.ringCells, from + 1, from + scenarioACounts[i]),
                           scenarioAStrips[i])
    /\ \A i, j \in DOMAIN layoutRects :
          i < j => overlapArea(layoutRects[i], layoutRects[j]) = 0
    /\ SumSeq([k \in DOMAIN layoutRects |-> rectArea(layoutRects[k])]) = 100 * 100

\* the layout of scenario A in which the top strip is one row of four
\* 25 x 25 cells
C17_Witness ==
  /\ scenarioAReturned
  /\ \A k \in 1..4 : fnOut.ringCells[k] = Rect(25 * (k - 1), 0, 25, 25)

(***************************************************************************)
(* C18: buildCellsFilled tries the gaps g0 = floor(gap), floor(g0 / 2),    *)
(* floor(g0 / 4), floor(g0 / 8) and finally 0, in that order, and returns  *)
(* the cells built with the first gap of this sequence for which a         *)
(* feasible row count exists (no cells when none of the five is            *)
(* feasible): never a smaller gap when an earlier one is feasible, never   *)
(* a gap outside the sequence.                                             *)
(***************************************************************************)
gapSequence(gap) == <<gap, gap \div 2, gap \div 4, gap \div 8, 0>>

feasibleWith(rect, n, g) == \E o \in tryBuildCellsFilled(rect, n, g) : ~o.null

firstFeasible(rect, n, seq) ==
  LET ks == {k \in DOMAIN seq : feasibleWith(rect, n, seq[k])}
  IN  IF ks = {} THEN 0 ELSE CHOOSE k \in ks : \A q \in ks : k <= q

C18_FirstFeasibleGapOfSequence ==
  (packerReturned /\ fnArgs.count > 0) =>
    LET seq == gapSequence(fnArgs.gap)
        k == firstFeasible(fnArgs.rect, fnArgs.count, seq)
    IN  IF k = 0 THEN fnOut = <<>>
        ELSE \E o \in tryBuildCellsFilled(fnArgs.rect, fnArgs.count, seq[k]) :
                ~o.null /\ fnOut = o.cells

\* gap 16 on a 3 x 3 rectangle with two cells: 16, 8, 4 and 2 are infeasible,
\* 1 would be feasible but is not in the sequence, the cells are built with 0
C18_Witness ==
  /\ packerReturned
  /\ fnArgs.rect = Rect(0, 0, MaxSide, MaxSide)
  /\ fnArgs.count = 2
  /\ fnArgs.gap = 2 * GapDivisor
  /\ feasibleWith(fnArgs.rect, 2, 1)
  /\ firstFeasible(fnArgs.rect, 2, gapSequence(fnArgs.gap)) = 5
  /\ Len(fnOut) = 2

(***************************************************************************)
(* C19: whenever tryBuildCellsFilled returns the cells of a grid (count    *)
(* >= 1) for a rectangle of width W and height H with effective gap        *)
(* g = max(0, gap), the grid fills the rectangle exactly: every cell has   *)
(* width >= 1 and height >= 1; each row starts at the left edge, its cells *)
(* follow each other at distance g, have one height, widths that differ by *)
(* at most 1, and widths + g * (cells in the row - 1) = W; the rows start  *)
(* at the top edge, follow each other at distance g, have heights that     *)
(* differ by at most 1, and heights + g * (rows - 1) = H.                  *)
(***************************************************************************)
gridReturned ==
  /\ fn = "tryBuildCellsFilled" /\ fnDone
  /\ ~fnOut.null
  /\ fnArgs.count >= 1

\* the positions of the cells that start a row of the row-major list cs
rowStarts(cs) ==
  SelectSeq([i \in DOMAIN cs |-> i], LAMBDA i : i = 1 \/ cs[i].y # cs[i - 1].y)

\* the cells of the row that starts at position s
rowFrom(cs, s) ==
  LET e == CHOOSE j \in s..Len(cs) :
             /\ \A q \in s..j : cs[q].y = cs[s].y
             /\ j = Len(cs) \/ cs[j + 1].y # cs[s].y
  IN  SubSeq(cs, s, e)

rowFillsWidth(row, x0, W, g) ==
  /\ row[1].x = x0
  /\ \A c \in 1..(Len(row) - 1) : row[c + 1].x = row[c].x + row[c].width + g
  /\ \A c, d \in DOMAIN row :
        /\ row[c].height = row[d].height
        /\ row[c].width - row[d].width \in {0 - 1, 0, 1}
  /\ SumSeq([c \in DOMAIN row |-> row[c].width]) + g * (Len(row) - 1) = W

C19_GridFillsRect ==
  gridReturned =>
    LET cs == fnOut.cells
        g == Max(0, fnArgs.gap)
        starts == rowStarts(cs)
        rows == [r \in DOMAIN starts |-> rowFrom(cs, starts[r])]
    IN
    /\ Len(cs) = fnArgs.count
    /\ \A k \in DOMAIN cs : cs[k].width >= 1 /\ cs[k].height >= 1
    /\ \A r \in DOMAIN rows : rowFillsWidth(rows[r], fnArgs.rect.x, fnArgs.rect.width, g)
    /\ rows[1][1].y = fnArgs.rect.y
    /\ \A r \in 1..(Len(rows) - 1) :
          rows[r + 1][1].y = rows[r][1].y + rows[r][1].height + g
    /\ \A r, q \in DOMAIN rows :
          rows[r][1].height - rows[q][1].height \in {0 - 1, 0, 1}
    /\ SumSeq([r \in DOMAIN rows |-> rows[r][1].height]) + g * (Len(rows) - 1)
         = fnArgs.rect.height

\* two rows of unequal length with a gap of 2 between cells and between rows
C19_Witness ==
  /\ gridReturned
  /\ fnArgs.gap = 2
  /\ fnArgs.count = 3
  /\ Len(rowStarts(fnOut.cells)) = 2
  /\ fnOut.cells[2].x = fnOut.cells[1].x + fnOut.cells[1].width + 2
  /\ fnOut.cells[3].y = fnOut.cells[1].y + fnOut.cells[1].height + 2

(***************************************************************************)
(* C20: for every size >= 64 and every mainRatio, the five rectangles of   *)
(* computeRegions (mainRect, top, right, bottom, left) are pairwise        *)
(* non-overlapping, lie inside the size x size canvas and cover it: their  *)
(* areas sum to size * size; top and bottom span the full canvas width,    *)
(* left and right span exactly the main square's height, so no corner is   *)
(* counted twice.                                                          *)
(***************************************************************************)
regionsReturned == fn = "computeRegions" /\ fnDone /\ fnArgs.size >= MinSize

regionRect(nm) ==
  fnOut.regions[CHOOSE i \in DOMAIN fnOut.regions : fnOut.regions[i].name = nm].rect

C20_RegionsTileCanvas ==
  regionsReturned =>
    LET size == fnArgs.size
        five == << fnOut.mainRect, regionRect("top"), regionRect("right"),
                   regionRect("bottom"), regionRect("left") >>
    IN
    /\ [i \in 1..4 |-> fnOut.regions[i].name] = <<"top", "right", "bottom", "left">>
    /\ \A i \in 1..4 : fnOut.regions[i].area = rectArea(fnOut.regions[i].rect)
    /\ \A i \in 1..5 : inside(five[i], Rect(0, 0, size, size))
    /\ \A i \in 1..5 : five[i].width >= 0 /\ five[i].height >= 0
    /\ \A i, j \in 1..5 : i < j => overlapArea(five[i], five[j]) = 0
    /\ SumSeq([i \in 1..5 |-> rectArea(five[i])]) = size * size
    /\ fnOut.mainRect.width = fnOut.mainRect.height
    /\ \A nm \in {"top", "bottom"} :
          regionRect(nm).x = 0 /\ regionRect(nm).width = size
    /\ \A nm \in {"left", "right"} :
          /\ regionRect(nm).y = fnOut.mainRect.y
          /\ regionRect(nm).height = fnOut.mainRect.height

\* size 65, ratio 0.49: round(31.85) = 32 leaves an odd difference, the main
\* square is nudged down to 31 and the ring is 17 thick
C20_Witness ==
  /\ regionsReturned
  /\ fnArgs.size = MinSize + 1
  /\ fnArgs.mainRatio = 49
  /\ fnOut.mainRect = Rect(17, 17, 31, 31)
  /\ regionRect("left") = Rect(0, 17, 17, 31)
  /\ regionRect("bottom") = Rect(0, 48, MinSize + 1, 17)

(***************************************************************************)
(* C21: for every integer size >= 64 and every mainRatio, computeRegions   *)
(* picks a mainSize with 1 <= mainSize <= size that differs by at most 1   *)
(* from round(size * r), r the ratio clamped to [0.05, 0.95], and makes    *)
(* size - mainSize even: the ring thickness ringT is a whole number >= 1,  *)
(* mainRect = {ringT, ringT, mainSize, mainSize} is centered (2 * ringT +  *)
(* mainSize = size) and all four ring regions have positive area.          *)
(***************************************************************************)
clampedPct(p) ==
  IF p < MinRatioPct THEN MinRatioPct ELSE IF p > MaxRatioPct THEN MaxRatioPct ELSE p

\* r = Math.round(size * p / 100): size * p / 100 - 1/2 < r <= size * p / 100 + 1/2
isRoundOf(r, size, p) ==
  /\ 100 * r <= size * p + 50
  /\ 100 * r > size * p - 50

C21_MainSquareCentered ==
  regionsReturned =>
    LET size == fnArgs.size
        mainSize == fnOut.mainRect.width
        ringT == fnOut.mainRect.x
    IN
    /\ mainSize >= 1 /\ mainSize <= size
    /\ \E r \in (mainSize - 1)..(mainSize + 1) :
          isRoundOf(r, size, clampedPct(fnArgs.mainRatio))
    /\ (size - mainSize) % 2 = 0
    /\ ringT >= 1
    /\ 2 * ringT + mainSize = size
    /\ fnOut.mainRect = Rect(ringT, ringT, mainSize, mainSize)
    /\ \A i \in 1..4 :
          /\ fnOut.regions[i].area > 0
          /\ fnOut.regions[i].rect.width > 0
          /\ fnOut.regions[i].rect.height > 0

\* the smallest canvas with a ratio above the clamp: round(64 * 0.95) = 61
\* leaves an odd difference, the main square is nudged to 60, the ring is 2 thick
C21_Witness ==
  /\ regionsReturned
  /\ fnArgs.size = MinSize
  /\ fnArgs.mainRatio > MaxRatioPct
  /\ isRoundOf(61, MinSize, MaxRatioPct)
  /\ fnOut.mainRect = Rect(2, 2, 60, 60)

(***************************************************************************)
(* C22: allocateCounts is a largest-remainder apportionment: with share_r  *)
(* = total * area_r / sum(areas), every region receives floor(share_r) or  *)
(* floor(share_r) + 1; exactly total - (sum of the floors) regions receive *)
(* the extra unit, and these are the regions with the largest fractional   *)
(* remainders, ties broken in the input order top, right, bottom, left.    *)
(* The shares are the exact ones: share_r = (floorOf r) + (fracOf r) /     *)
(* sum(areas).                                                             *)
(***************************************************************************)
countsReturned ==
  /\ fn = "allocateCounts" /\ fnDone
  /\ fnArgs.total > 0

areaSum == SumSeq([i \in 1..4 |-> fnArgs.regions[i].area])

exactFloor(i) == (fnArgs.regions[i].area * fnArgs.total) \div areaSum

exactFrac(i) == (fnArgs.regions[i].area * fnArgs.total) % areaSum

\* the number of regions that come before region i when the regions are
\* ordered by descending remainder, ties in input order
exactRank(i) ==
  Cardinality({j \in 1..4 :
                 exactFrac(j) > exactFrac(i) \/ (exactFrac(j) = exactFrac(i) /\ j < i)})

C22_LargestRemainderTiesInInputOrder ==
  countsReturned =>
    LET extras == fnArgs.total - SumSeq([i \in 1..4 |-> exactFloor(i)])
    IN  \A i \in 1..4 :
           fnOut[fnArgs.regions[i].name]
             = exactFloor(i) + (IF exactRank(i) < extras THEN 1 ELSE 0)

(***************************************************************************)
(* The page component Home.  An operation is started by one of the         *)
(* handlers generatePreview, exportHd and generateDemo; each runs to its   *)
(* first await inside the click event and continues when the awaited       *)
(* promise settles.  A handler can be invoked only through its button, and *)
(* a button only when the committed render leaves it enabled.              *)
(***************************************************************************)
MaxOps == 3
MaxFiles == 2

canGenerate == shown.images >= 1
canExport == canGenerate /\ shown.images >= 1

committed == [busy |-> busy', images |-> images']

startOp(handler, at, canvas) ==
  /\ Len(ops) < MaxOps
  /\ abortRef' = Len(ops) + 1
  /\ ops' = Append(ops, [handler |-> handler, at |-> at, canvas |-> canvas,
                         aborted |-> FALSE])
  /\ busy' = TRUE
  /\ error' = FALSE
  /\ UNCHANGED images
  /\ shown' = committed

abortCurrent ==
  IF abortRef = NoController
    THEN ops
    ELSE [ops EXCEPT ![abortRef].aborted = TRUE]

finallyOf(k, failed) ==
  /\ ops' = [ops EXCEPT ![k].at = "done"]
  /\ error' = (error \/ failed)
  /\ busy' = FALSE
  /\ abortRef' = NoController
  /\ UNCHANGED shown

outcomes(k) ==
  {"resolved", "Error"} \cup (IF ops[k].aborted THEN {"AbortError"} ELSE {})

addFiles ==
  /\ \E added \in 1..MaxFiles :
       /\ images + added <= MaxFiles
       /\ images' = images + added
  /\ error' = FALSE
  /\ UNCHANGED <<busy, abortRef, ops>>
  /\ shown' = committed
  /\ UNCHANGED <<layoutVars, renderVars>>

clearAll ==
  /\ ~(shown.busy \/ shown.images = 0)
  /\ ops' = abortCurrent
  /\ images' = 0
  /\ error' = FALSE
  /\ UNCHANGED <<busy, abortRef>>
  /\ shown' = committed
  /\ UNCHANGED <<layoutVars, renderVars>>

cancel ==
  /\ shown.busy
  /\ ops' = abortCurrent
  /\ UNCHANGED <<busy, images, error, shown, abortRef>>
  /\ UNCHANGED <<layoutVars, renderVars>>

generatePreview_NoBusy ==
  /\ ~shown.busy
  /\ canGenerate
  /\ Len(ops) < MaxOps
  /\ abortRef' = Len(ops) + 1
  /\ ops' = Append(ops, [handler |-> "generatePreview", at |-> "render",
                         canvas |-> "preview", aborted |-> FALSE])
  /\ error' = FALSE
  /\ UNCHANGED <<busy, images, shown>>
  /\ UNCHANGED <<layoutVars, renderVars>>

generatePreview ==
  /\ ~(~shown.busy /\ ~canGenerate)
  /\ ~shown.busy
  /\ canGenerate
  /\ startOp("generatePreview", "render", "preview")
  /\ UNCHANGED <<layoutVars, renderVars>>

exportHd ==
  /\ ~(~canExport \/ shown.busy)
  /\ startOp("exportHd", "render", "export")
  /\ UNCHANGED <<layoutVars, renderVars>>

generateDemo ==
  /\ ~shown.busy
  /\ startOp("generateDemo", "createDemoFiles", "none")
  /\ UNCHANGED <<layoutVars, renderVars>>

(***************************************************************************)
(* The awaited promises settle.  renderCollageToCanvas and createDemoFiles *)
(* reject with AbortError only when they find their signal aborted, and    *)
(* may still resolve when the signal was aborted after their last look at  *)
(* it; canvasToBlob does not look at the signal.                           *)
(***************************************************************************)
RenderSettles ==
  /\ \E k \in DOMAIN ops :
       /\ ops[k].at = "render"
       /\ \E outcome \in outcomes(k) :
            IF outcome = "resolved" /\ ops[k].handler = "exportHd"
              THEN /\ ops' = [ops EXCEPT ![k].at = "canvasToBlob"]
                   /\ UNCHANGED <<busy, error, shown, abortRef>>
              ELSE finallyOf(k, outcome = "Error")
  /\ UNCHANGED images
  /\ UNCHANGED <<layoutVars, renderVars>>

BlobSettles ==
  /\ \E k \in DOMAIN ops :
       /\ ops[k].at = "canvasToBlob"
       /\ \E outcome \in {"resolved", "Error"} :
            finallyOf(k, outcome = "Error")
  /\ UNCHANGED images
  /\ UNCHANGED <<layoutVars, renderVars>>

DemoSettles ==
  /\ \E k \in DOMAIN ops :
       /\ ops[k].at = "createDemoFiles"
       /\ \E outcome \in outcomes(k) :
            /\ finallyOf(k, outcome = "Error")
            /\ images' = IF outcome = "resolved" THEN MaxFiles ELSE images
  /\ UNCHANGED <<layoutVars, renderVars>>

Commit ==
  /\ shown # [busy |-> busy, images |-> images]
  /\ shown' = [busy |-> busy, images |-> images]
  /\ UNCHANGED <<busy, images, error, abortRef, ops>>
  /\ UNCHANGED <<layoutVars, renderVars>>

InitPage ==
  /\ fn = "none"
  /\ fnArgs = <<>>
  /\ fnDone = FALSE
  /\ fnOut = <<>>
  /\ renderIdle
  /\ pageIdle

NextPage ==
  \/ addFiles
  \/ clearAll
  \/ cancel
  \/ generatePreview
  \/ exportHd
  \/ generateDemo
  \/ RenderSettles
  \/ BlobSettles
  \/ DemoSettles
  \/ Commit

SpecPage == InitPage /\ [][NextPage]_vars

(***************************************************************************)
(* Operations of the page that have not reached the end of their handler,  *)
(* and the renderCollageToCanvas calls that have not settled.              *)
(***************************************************************************)
inFlight(os) == {k \in DOMAIN os : os[k].at # "done"}
rendering(os, canvas) ==
  {k \in DOMAIN os : os[k].at = "render" /\ os[k].canvas = canvas}
renderStarted ==
  /\ Len(ops') = Len(ops) + 1
  /\ ops'[Len(ops')].at = "render"

(***************************************************************************)
(* C23: at most one renderCollageToCanvas call is in flight on the preview *)
(* canvas at any time; a render is started only when every render still    *)
(* running has had its signal aborted; and the cancel handler aborts the   *)
(* controller of every operation in flight, of which there is at most one. *)
(***************************************************************************)
C23_OneRenderInFlight ==
  [][/\ Cardinality(rendering(ops', "preview")) <= 1
     /\ renderStarted =>
          \A k \in DOMAIN ops : ops[k].at = "render" => ops[k].aborted
     /\ cancel =>
          /\ Cardinality(inFlight(ops)) <= 1
          /\ \A k \in inFlight(ops) : abortRef = k /\ ops'[k].aborted]_vars

C23_Witness ==
  /\ Len(ops) > 1
  /\ \E k \in DOMAIN ops :
       /\ k > 1
       /\ ops[k].handler = "generatePreview"
       /\ ops[k].at = "render"
       /\ ops[k].aborted
       /\ abortRef = k
  /\ \E k \in DOMAIN ops : ops[k].handler = "generatePreview" /\ ops[k].at = "done"

(***************************************************************************)
(* The row counts that are feasible for n cells at a gap, whatever the row *)
(* search does: every row at least one pixel high and every cell at least  *)
(* one pixel wide once the gaps are taken out.                             *)
(***************************************************************************)
feasibleRows(n, width, height, gap) ==
  {rows \in 1..Min(n, height) :
     /\ height - gap * (rows - 1) >= rows
     /\ \A r \in 0..(rows - 1) :
          width - gap * (rowCountOf(n, rows, r) - 1) >= rowCountOf(n, rows, r)}

packerCase ==
  /\ fnDone
  /\ fnArgs.rect.width > 0
  /\ fnArgs.rect.height > 0
  /\ fnArgs.count > 0
  /\ fnArgs.gap >= 0

(***************************************************************************)
(* C24: for a rectangle of positive width W and height H, n > 0 and        *)
(* gap >= 0, buildCellsFilled returns exactly n cells if and only if       *)
(* n <= W * H and the empty list otherwise; a grid that is feasible at a   *)
(* gap is feasible at every smaller gap; and the 'break' of the row search *)
(* skips no feasible row count: the grid of every feasible row count is a  *)
(* candidate of tryBuildCellsFilled, which returns null only when there is *)
(* none.                                                                   *)
(***************************************************************************)
C24_FillsIffFitsAndMonotoneInGap ==
  /\ (fn = "buildCellsFilled" /\ packerCase) =>
       /\ Len(fnOut) = fnArgs.count <=> fnArgs.count <= rectArea(fnArgs.rect)
       /\ fnArgs.count > rectArea(fnArgs.rect) => fnOut = <<>>
  /\ (fn = "tryBuildCellsFilled" /\ packerCase) =>
       LET rect == fnArgs.rect
           n == fnArgs.count
           feasible == feasibleRows(n, rect.width, rect.height, fnArgs.gap)
       IN  /\ fnOut.null <=> feasible = {}
           /\ ~fnOut.null => \A g \in 0..fnArgs.gap : feasibleWith(rect, n, g)
           /\ \A rows \in feasible :
                SomeCells(gridCells(rect.x, rect.y, rect.width, rect.height, n,
                                    fnArgs.gap, rows))
                  \in tryBuildCellsFilled(rect, n, fnArgs.gap)

\* four cells in two rows at gap 2 in a rectangle 4 pixels high: the row search
\* ends at three rows, before the four rows that n would allow
C24_Witness ==
  /\ fn = "tryBuildCellsFilled"
  /\ packerCase
  /\ fnArgs.gap > 1
  /\ ~fnOut.null
  /\ Len(fnOut.cells) = fnArgs.count
  /\ fnOut.cells[Len(fnOut.cells)].y > fnArgs.rect.y
  /\ \E rows \in 1..Min(fnArgs.count, fnArgs.rect.height) :
       ~loopReaches(fnArgs.count, fnArgs.rect.height, fnArgs.gap, rows)

(***************************************************************************)
(* C25: on every successful renderCollageToCanvas call with images of      *)
(* unique ids, every supplied image is decoded exactly once and passed to  *)
(* drawImageCover exactly once, no two images get the same destination     *)
(* rectangle, the images iterated are a permutation of the non-main images *)
(* (of all images in flat mode), with shuffleOthers on or off, and the     *)
(* caller's images array is left as it was.                                *)
(***************************************************************************)
uniqueIds ==
  \A k, q \in DOMAIN rArgs.images : rArgs.images[k] = rArgs.images[q] => k = q

succeededWithUniqueIds == pc = "done" /\ result = "ok" /\ uniqueIds

occurrences(s, item) == Cardinality({k \in DOMAIN s : s[k] = item})

eachImageOnce ==
  LET items == itemsOf(rArgs.images)
      drawnItems == [k \in DOMAIN drawLog |-> drawLog[k].item]
      nonMain == {items[k] : k \in DOMAIN items} \ {mainItem}
  IN  /\ \A k \in DOMAIN items :
            /\ occurrences(decodeLog, items[k]) = 1
            /\ occurrences(drawnItems, items[k]) = 1
      /\ Len(decodeLog) = Len(items)
      /\ Len(drawLog) = Len(items)
      /\ \A k, q \in DOMAIN drawLog : drawLog[k].dest = drawLog[q].dest => k = q
      /\ {ordered[k] : k \in DOMAIN ordered} = nonMain
      /\ Len(ordered) = Cardinality(nonMain)

C25_EachImageOnceDistinctCells ==
  [][/\ rArgs'.images = rArgs.images
     /\ succeededWithUniqueIds' => eachImageOnce']_vars

\* a successful main-mode call that shuffled the three ring images of four
C25_Witness ==
  /\ succeededWithUniqueIds
  /\ rArgs.useMain
  /\ rArgs.shuffleOthers
  /\ Len(rArgs.images) = 4
  /\ mainItem.id = rArgs.mainId
  /\ ordered # filterSeq(itemsOf(rArgs.images), mainItem.id)
  /\ Len(drawLog) = 4

(***************************************************************************)
(* C26: in main mode, when mainId is the id of no supplied image (ids      *)
(* unique), the first image of the list is the main image: it is not among *)
(* the ring images, which are the images.length - 1 others, it is the only *)
(* image drawn into mainRect, a successful call has drawn it there last,   *)
(* and a call that fails has failed for a reason of its own: no drawing    *)
(* context, a ring too small for the cells, a rejected decode, a draw or a *)
(* callback that threw, or an aborted signal.                              *)
(***************************************************************************)
unknownMainCase ==
  /\ rArgs.useMain
  /\ pc # "init"
  /\ Len(rArgs.images) > 0
  /\ \A k \in DOMAIN rArgs.images : rArgs.images[k] # rArgs.mainId
  /\ uniqueIds

C26_UnknownMainIdFallsBackToFirst ==
  unknownMainCase =>
    LET items == itemsOf(rArgs.images)
        n == Len(items)
    IN  /\ filled =>
             /\ mainItem = items[1]
             /\ IF rArgs.shuffleOthers
                THEN ordered \in shuffleInPlace(Tail(items))
                ELSE ordered = Tail(items)
             /\ Len(ordered) = n - 1
             /\ \A k \in DOMAIN ordered : ordered[k].id # mainItem.id
             /\ mainRect = computeRegions(renderSize, rArgs.mainRatio).mainRect
             /\ \A k \in DOMAIN drawLog :
                   IF k = n
                   THEN drawLog[k] = [item |-> items[1], dest |-> mainRect]
                   ELSE drawLog[k].item # items[1] /\ drawLog[k].dest # mainRect
        /\ result = "ok" => Len(drawLog) = n
        /\ result # "EmptyInput"
        /\ result = "SurfaceUnavailable" => ~rArgs.ctxOk
        /\ result = "LayoutShortfall" => Len(cells) < n - 1
        /\ result = "DecodeFailure" => failedDecode # NoItem
        /\ result = "AbortError" => aborted
        /\ result \in {"none", "ok", "SurfaceUnavailable", "LayoutShortfall",
                       "DecodeFailure", "DrawFailure", "CallbackFailure", "AbortError"}

\* a successful call with three images and a mainId that none of them has
C26_Witness ==
  /\ unknownMainCase
  /\ result = "ok"
  /\ Len(rArgs.images) = 3
  /\ mainItem.id = 1
  /\ Len(ordered) = 2
  /\ drawLog[3] = [item |-> mainItem, dest |-> mainRect]

=============================================================================
